---- MODULE Spec2Model ----
(***************************************************************************)
(* lazyadmin: the task runner (internal/tasks), the operation executor and *)
(* the result handling of the front-end (internal/ui) and the audit log    *)
(* (internal/logging), as one state machine.  A behaviour is one execution *)
(* started from the main view: either one operation or one task.           *)
(***************************************************************************)
EXTENDS Integers, Sequences, FiniteSets, TLC

\* Largest number of steps of a task.
MaxSteps == 2

\* Largest number of records appended to the audit log when the log is used
\* on its own.
MaxRecords == 3

\* Largest number of commands started from the main view in a session.
MaxRuns == 1

\* The limit withLoadedLogs passes to ReadRecent.
RecentLimit == 50

\* ------------------------------------------------------------------------
\* internal/config: policies, steps, tasks, operations
\* ------------------------------------------------------------------------

\* A nil Go error.
Nil == "<nil>"

OnErrorFailFast == "fail_fast"
OnErrorBestEffort == "best_effort"

StepOnErrorInherit == "inherit"
StepOnErrorFail == "fail"
StepOnErrorWarn == "warn"
StepOnErrorContinue == "continue"

\* on_error of a task: unset, or one of the two documented values.
TaskPolicies == {"", OnErrorFailFast, OnErrorBestEffort}

\* on_error of a step: unset, or one of the four documented values.
StepPolicies ==
    {"", StepOnErrorInherit, StepOnErrorFail, StepOnErrorWarn, StepOnErrorContinue}

\* The (type, resource) pairs a step or an operation may carry: a declared
\* HTTP resource, a declared Postgres resource, a sleep, and a type the
\* runner has no driver for.
StepKinds ==
    { [Type |-> "http", Resource |-> "api"],
      [Type |-> "postgres", Resource |-> "db"],
      [Type |-> "sleep", Resource |-> ""],
      [Type |-> "redis", Resource |-> "cache"] }

\* The id of the i-th declared step.
StepID(i) == "s" \o ToString(i)

\* config.TaskStep
TaskStep(i, kind, onError) ==
    [ID |-> StepID(i), Type |-> kind.Type, Resource |-> kind.Resource,
     OnError |-> onError]

StepsOfLen(n) ==
    { [i \in 1..n |-> TaskStep(i, kp[i][1], kp[i][2])] :
        kp \in [1..n -> StepKinds \X StepPolicies] }

\* summary_template of a task: none.
Templates == {""}

\* config.Task
Tasks ==
    { [ID |-> "deploy", OnError |-> p, Steps |-> s, SummaryTemplate |-> tmpl] :
        p \in TaskPolicies,
        s \in UNION { StepsOfLen(n) : n \in 1..MaxSteps },
        tmpl \in Templates }

NoTask == [ID |-> "", OnError |-> "", Steps |-> << >>, SummaryTemplate |-> ""]

\* config.Operation
Operations ==
    { [ID |-> "op_http", Type |-> "http", Target |-> "api"],
      [ID |-> "op_http_ghost", Type |-> "http", Target |-> "ghost"],
      [ID |-> "op_pg", Type |-> "postgres", Target |-> "db"],
      [ID |-> "op_redis", Type |-> "redis", Target |-> "cache"] }

NoOp == [ID |-> "", Type |-> "", Target |-> ""]

\* auth.Principal of the session
PrincipalUserID == "alice"
PrincipalSSHUser == "alice"

\* config.User; users.User has the same fields but the credentials.
User(id, sshUsers, roles, creds) ==
    [ID |-> id, SSHUsers |-> sshUsers, Roles |-> roles, YubiKeyCreds |-> creds]

\* A nil *config.User or *users.User.
NoUser == User("", {}, {}, << >>)

\* config.Operation with its allowed_roles.
Operation(id, type, target, allowedRoles) ==
    [ID |-> id, Type |-> type, Target |-> target, AllowedRoles |-> allowedRoles]

\* cfg.Operations of the session, in declaration order: one open to two
\* roles, one to admin alone, one that lists no role.
CatalogOperations ==
    << Operation("op_http", "http", "api", {"admin", "ops"}),
       Operation("op_pg", "postgres", "db", {"admin"}),
       Operation("op_nobody", "http", "api", {}) >>

\* config.Task with its allowed_roles and require_yubikey.
CatalogTask(id, allowedRoles, requireYubiKey, kind) ==
    [ID |-> id, AllowedRoles |-> allowedRoles, RequireYubiKey |-> requireYubiKey,
     OnError |-> "", Steps |-> << TaskStep(1, kind, "") >>, SummaryTemplate |-> ""]

\* cfg.Tasks of the session, in declaration order.
CatalogTasks ==
    << CatalogTask("deploy", {"admin"}, TRUE, [Type |-> "http", Resource |-> "api"]),
       CatalogTask("nap", {"ops"}, FALSE, [Type |-> "sleep", Resource |-> ""]),
       CatalogTask("purge", {}, FALSE, [Type |-> "http", Resource |-> "api"]) >>

\* cfg.Users, in declaration order.
CatalogUsers ==
    << User("alice", {"alice"}, {"admin"}, << >>),
       User("carol", {"carol"}, {"viewer"}, << >>) >>

\* Rows of table users of the store.
StoreUsers == << User("bob", {"bob"}, {"ops"}, << >>) >>

\* config.Config
Config(requireYubiKey, users, backends) ==
    [Auth |-> [RequireYubiKey |-> requireYubiKey], Users |-> users,
     Operations |-> CatalogOperations, Tasks |-> CatalogTasks,
     OpenAPI |-> [Backends |-> backends]]

\* The configuration of a session that asks for no second factor.
SessionConfig == Config(FALSE, CatalogUsers, {})

VARIABLES
    httpClients,    \* keys of Model.httpClients / Runner.httpClients
    pgClients,      \* keys of Model.pgClients / Runner.pgClients
    db,             \* AuditLogger.db: "open", "closed" (after Close) or "nil"
    auditLog,       \* rows of table audit_log, in id order
    logRet,         \* what the last call of Log or Close returned, and the calls of Close
    task,           \* the task passed to Run
    pc,             \* position of the runTask command
    idx,            \* index of the current step of the loop of Run
    res,            \* TaskResult of Run
    stepPolicy,     \* local stepPolicy of Run
    sr,             \* local sr of Run
    ctxDone,        \* the 60 s context of runTask is done
    cancelledAt,    \* index of the step active when that context became done (0: never)
    calls,          \* driver calls of the run: <<"invoke"|"return", index>>
    op,             \* the operation passed to runOperation
    opc,            \* position of the runOperation command
    opOut,          \* local out of runOperation
    opErr,          \* local err of runOperation
    opCtxDone,      \* the 5 s context of runOperation is done
    lastOp,         \* Model.lastOp (its ID; "" when nil)
    lastOutput,     \* Model.lastOutput
    lastError,      \* Model.lastError
    lastTask,       \* Model.lastTask (its ID; "" when nil)
    lastTaskResult, \* Model.lastTaskResult
    lastSummary,    \* Model.lastSummary
    recent,         \* the last ReadRecent call: its limit, rows and error
    cfg,            \* Model.cfg
    principal,      \* Model.principal
    users,          \* rows of table users of the store
    creds,          \* table credentials of the store: its key sequence and rows
    mode,           \* Model.mode
    filter,         \* Model.filter
    viewTasks,      \* Model.viewTasks
    list,           \* items of Model.list
    userList,       \* Model.userList
    runs,           \* number of commands started from the main view
    assertions,     \* what each successful RequireFIDO2Assertion was made for
    mainPc,         \* position of main: the call it makes next, "session" or "exited"
    exitCause,      \* prefix of the log.Fatalf that ended the process (Nil: none)
    remote,         \* remote calls main has made, in order
    fido,           \* what RequireYubiKeyIfConfigured returned to main
    doc,            \* what the loader of GenerateOperations fetched
    env,            \* the environment of the process and the sshUser ResolvePrincipal read from it
    registeringUser, \* Model.registeringUser
    registerStatus, \* Model.registerStatus
    reg             \* the registerNewUser command: its position, user id and error

logVars == <<db, auditLog, logRet>>
clientVars == <<httpClients, pgClients>>
runVars == <<task, pc, idx, res, stepPolicy, sr, ctxDone, cancelledAt, calls>>
opVars == <<op, opc, opOut, opErr, opCtxDone>>
uiVars == <<lastOp, lastOutput, lastError, lastTask, lastTaskResult, lastSummary>>
feVars == <<cfg, principal, users, creds, mode, filter, viewTasks, list, userList, runs, assertions>>
startVars == <<mainPc, exitCause, remote, fido, doc, env>>
regVars == <<registeringUser, registerStatus, reg>>
extVars == <<recent, feVars, startVars, regVars>>
vars == <<logVars, clientVars, runVars, opVars, uiVars, extVars>>

\* ------------------------------------------------------------------------
\* internal/logging
\* ------------------------------------------------------------------------

boolToInt(b) == IF b THEN 1 ELSE 0

\* logging.AuditEntry
AuditEntry(operationID, success, error) ==
    [UserID |-> principal.ConfigUser.ID, SSHUser |-> principal.SSHUser,
     OperationID |-> operationID, Success |-> success, Error |-> error]

\* Mutant: the key is not incremented: the row takes the largest id in use.
AuditRowOf_IdNotIncremented(log, entry) ==
    [id |-> IF log = << >> THEN 1 ELSE log[Len(log)].id,
     user_id |-> entry.UserID, ssh_user |-> entry.SSHUser,
     operation_id |-> entry.OperationID, success |-> boolToInt(entry.Success),
     error |-> entry.Error]

\* The row INSERT adds for an entry: id is the AUTOINCREMENT key.
AuditRowOf(log, entry) ==
    [id |-> Len(log) + 1, user_id |-> entry.UserID, ssh_user |-> entry.SSHUser,
     operation_id |-> entry.OperationID, success |-> boolToInt(entry.Success),
     error |-> entry.Error]

\* Mutant: Log on a logger without database fails.
Log_NilFails(database, log, ctxIsDone, entry) ==
    IF database = "nil" THEN <<log, "sql: database is closed">>
    ELSE IF database = "closed" THEN <<log, "sql: database is closed">>
    ELSE IF ctxIsDone THEN <<log, "context deadline exceeded">>
    ELSE <<Append(log, AuditRowOf(log, entry)), Nil>>

\* AuditLogger.Log: <<the table afterwards, the error returned>>.  A nil db
\* is a no-op; ExecContext on a closed db, or under a context that is done,
\* inserts nothing.
Log(database, log, ctxIsDone, entry) ==
    IF database = "nil" THEN <<log, Nil>>
    ELSE IF database = "closed" THEN <<log, "sql: database is closed">>
    ELSE IF ctxIsDone THEN <<log, "context deadline exceeded">>
    ELSE <<Append(log, AuditRowOf(log, entry)), Nil>>

\* No call of Log or Close has returned.
NoReturn == [call |-> "", err |-> Nil, closes |-> 0]

\* Log returned err.
LogReturned(ret, err) == [ret EXCEPT !.call = "Log", !.err = err]

\* Mutant: Close fails on a database that is closed.
CloseDB_ClosedFails(database) ==
    IF database = "nil" THEN <<"nil", Nil>>
    ELSE IF database = "closed" THEN <<"closed", "sql: database is closed">>
    ELSE <<"closed", Nil>>

\* AuditLogger.Close: <<db afterwards, error>>.  Without a database it
\* returns at once; sql.DB.Close closes an open database and returns nil on
\* one that is closed.
CloseDB(database) ==
    IF database = "nil" THEN <<"nil", Nil>>
    ELSE <<"closed", Nil>>

\* Close returned err.
CloseReturned(ret, err) ==
    [ret EXCEPT !.call = "Close", !.err = err, !.closes = @ + 1]

\* The rows of a sequence in reverse order.
Reverse(seq) == [i \in 1..Len(seq) |-> seq[Len(seq) + 1 - i]]

\* logging.AuditRow as ReadRecent scans it from a row of the table: success
\* is true for 1 alone.  Seq is the id of the row scanned; AuditRow has no
\* such field, it is kept here to tell which record a row came from.
AuditRow(row) ==
    [Seq |-> row.id, UserID |-> row.user_id, SSHUser |-> row.ssh_user,
     OperationID |-> row.operation_id, Success |-> (row.success = 1),
     Error |-> row.error]

\* Mutant: the query has no DESC: the oldest rows come first.
ReadRecent_Ascending(database, log, limit) ==
    IF database = "nil" THEN << << >>, Nil >>
    ELSE IF database = "closed" THEN << << >>, "sql: database is closed" >>
    ELSE LET n == IF limit < 0 \/ limit > Len(log) THEN Len(log) ELSE limit
         IN  << [i \in 1..n |-> AuditRow(log[i])], Nil >>

\* logging.ReadRecent: <<rows, error>>.  ORDER BY id DESC LIMIT ?: a negative
\* limit is no limit in SQLite.
ReadRecent(database, log, limit) ==
    IF database = "nil" THEN << << >>, Nil >>
    ELSE IF database = "closed" THEN << << >>, "sql: database is closed" >>
    ELSE LET desc == Reverse(log)
             n == IF limit < 0 \/ limit > Len(log) THEN Len(log) ELSE limit
         IN  << [i \in 1..n |-> AuditRow(desc[i])], Nil >>

\* No ReadRecent call has been made.  count is the number of records in the
\* table when the call was made.
NoRecent == [limit |-> 0, count |-> 0, rows |-> << >>, err |-> Nil]

\* ------------------------------------------------------------------------
\* internal/tasks
\* ------------------------------------------------------------------------

\* Mutant: fail_fast resolves to continue.
stepOnErrorFromTask_FailFastContinues(taskPolicy) ==
    CASE taskPolicy = OnErrorFailFast -> StepOnErrorContinue
      [] taskPolicy = OnErrorBestEffort -> StepOnErrorContinue
      [] OTHER -> StepOnErrorFail

stepOnErrorFromTask(taskPolicy) ==
    CASE taskPolicy = OnErrorFailFast -> StepOnErrorFail
      [] taskPolicy = OnErrorBestEffort -> StepOnErrorContinue
      [] OTHER -> StepOnErrorFail

\* Mutant: an unset task policy defaults to best_effort.
TaskPolicyOf_DefaultBestEffort(t) ==
    IF t.OnError = "" THEN OnErrorBestEffort ELSE t.OnError

\* Run, lines 56-59: the task policy, fail_fast when unset.
TaskPolicyOf(t) == IF t.OnError = "" THEN OnErrorFailFast ELSE t.OnError

\* Mutant: the declared policy of the step is ignored.
EffectivePolicy_IgnoresStep(t, step) == stepOnErrorFromTask(TaskPolicyOf(t))

\* Mutant: best_effort marks the task failed on an inherited failure.
EffectivePolicy_BestEffortWarns(t, step) ==
    IF step.OnError = "" \/ step.OnError = StepOnErrorInherit
    THEN IF TaskPolicyOf(t) = OnErrorBestEffort THEN StepOnErrorWarn
         ELSE stepOnErrorFromTask(TaskPolicyOf(t))
    ELSE step.OnError

\* Run, lines 64-67: the effective policy of a step.
EffectivePolicy(t, step) ==
    IF step.OnError = "" \/ step.OnError = StepOnErrorInherit
    THEN stepOnErrorFromTask(TaskPolicyOf(t))
    ELSE step.OnError

\* tasks.StepResult
StepResult(step, out, err) ==
    [Step |-> step, OK |-> (err = Nil), Output |-> out, Err |-> err]

NoResult == [Step |-> [ID |-> ""], OK |-> FALSE, Output |-> "", Err |-> Nil]

\* TaskResult.Steps of a run that has started no step: the empty map.
NoSteps == [id \in {} |-> NoResult]

\* tasks.TaskResult as Run initialises it (lines 49-54).
NewTaskResult == [Success |-> TRUE, StepOrder |-> << >>, Steps |-> NoSteps]

\* Mutant: the driver of a postgres step is called whether or not the
\* resource has a client.
runStepDispatch_QueriesWithoutClient(step, http, pg) ==
    CASE step.Type = "http" ->
            IF step.Resource \in http THEN "call"
            ELSE "no http resource \"" \o step.Resource \o "\""
      [] step.Type = "postgres" -> "call"
      [] step.Type = "sleep" -> "call"
      [] OTHER -> "unsupported step type \"" \o step.Type \o "\""

\* Mutant: a step of a type without a driver is run as a sleep.
runStepDispatch_UnsupportedSleeps(step, http, pg) ==
    CASE step.Type = "http" ->
            IF step.Resource \in http THEN "call"
            ELSE "no http resource \"" \o step.Resource \o "\""
      [] step.Type = "postgres" ->
            IF step.Resource \in pg THEN "call"
            ELSE "no postgres resource \"" \o step.Resource \o "\""
      [] OTHER -> "call"

\* runStep before any driver call: "call" when the step has a client (or is a
\* sleep), else the error runStep returns at once.
runStepDispatch(step, http, pg) ==
    CASE step.Type = "http" ->
            IF step.Resource \in http THEN "call"
            ELSE "no http resource \"" \o step.Resource \o "\""
      [] step.Type = "postgres" ->
            IF step.Resource \in pg THEN "call"
            ELSE "no postgres resource \"" \o step.Resource \o "\""
      [] step.Type = "sleep" -> "call"
      [] OTHER -> "unsupported step type \"" \o step.Type \o "\""

\* clients.HTTPClient.Request: <<output, error>> pairs it can return.  Any
\* response, whatever its status, is returned with a nil error.
HTTPRequest(ctxIsDone) ==
    IF ctxIsDone THEN { <<"", "context deadline exceeded">> }
    ELSE { <<"HTTP 200 OK", Nil>>,
           <<"HTTP 500 Internal Server Error", Nil>>,
           <<"", "connection refused">> }

\* clients.PostgresClient.RunScalarQuery
RunScalarQuery(ctxIsDone) ==
    IF ctxIsDone THEN { <<"", "scan: context deadline exceeded">> }
    ELSE { <<"1", Nil>>, <<"", "scan: sql: no rows in result set">> }

\* Mutant: the sleep does not watch the context.
Sleep_IgnoresContext(ctxIsDone) == { <<"slept 1s", Nil>> }

\* runStep, case "sleep": the timer fires, or the context is done first.
Sleep(ctxIsDone) ==
    IF ctxIsDone THEN { <<"", "context deadline exceeded">> }
    ELSE { <<"slept 1s", Nil>> }

\* What the driver of a step can return.
DriverReturns(type, ctxIsDone) ==
    CASE type = "http" -> HTTPRequest(ctxIsDone)
      [] type = "postgres" -> RunScalarQuery(ctxIsDone)
      [] OTHER -> Sleep(ctxIsDone)

\* Mutant: the step id is left out of the operation id.
StepEntry_NoStepID(taskID, result) ==
    AuditEntry("task:" \o taskID,
               result.Err = Nil,
               IF result.Err # Nil THEN result.Err ELSE "")

\* logStep: the entry of a step.
StepEntry(taskID, result) ==
    AuditEntry("task:" \o taskID \o " step:" \o result.Step.ID,
               result.Err = Nil,
               IF result.Err # Nil THEN result.Err ELSE "")

\* Mutant: the task is always logged as a success.
TaskEntry_AlwaysSuccess(taskID, success) == AuditEntry("task:" \o taskID, TRUE, "")

\* logTask: the entry of a task.
TaskEntry(taskID, success) == AuditEntry("task:" \o taskID, success, "")

\* executeTemplate: <<text, error>> for the templates "{{.Success}}", "{{"
\* (which does not parse) and "{{.Nope}}" (which names no field of the data
\* and fails when executed); any other text is taken to hold no action.
executeTemplate(tmpl, data) ==
    CASE tmpl = "{{.Success}}" -> <<IF data.Success THEN "true" ELSE "false", Nil>>
      [] tmpl = "{{" -> <<"", "template: summary:1: unclosed action">>
      [] tmpl = "{{.Nope}}" -> <<"", "template: summary:1:2: can't evaluate field Nope">>
      [] OTHER -> <<tmpl, Nil>>

\* Mutant: the empty template is not set apart and is an error.
RenderSummary_EmptyTemplateFails(t, tr) ==
    IF t.SummaryTemplate = "" THEN <<"", "template: summary: empty">>
    ELSE executeTemplate(t.SummaryTemplate, tr)

\* RenderSummary: <<text, error>>.
RenderSummary(t, tr) ==
    IF t.SummaryTemplate = "" THEN <<"", Nil>>
    ELSE executeTemplate(t.SummaryTemplate, tr)

\* ------------------------------------------------------------------------
\* internal/users: the store, in the database file of the audit log
\* ------------------------------------------------------------------------

ErrUserExists == "user already exists"

\* Table credentials with no row; seq is the largest key handed out.
NoCredentials == [seq |-> 0, rows |-> << >>]

\* Store.CreateUser: <<table users afterwards, error>>; id is the primary
\* key.
CreateUser(rows, u) ==
    IF \E i \in DOMAIN rows : rows[i].ID = u.ID THEN <<rows, ErrUserExists>>
    ELSE <<Append(rows, u), Nil>>

\* Store.AddCredential: <<table credentials afterwards, error>>;
\* (user_id, rp_id, credential_id) is unique.
AddCredential(tbl, userID, cred) ==
    IF \E i \in DOMAIN tbl.rows :
          /\ tbl.rows[i].UserID = userID
          /\ tbl.rows[i].RPID = cred.RPID
          /\ tbl.rows[i].CredentialID = cred.CredentialID
    THEN <<tbl, "credential already exists">>
    ELSE <<[seq |-> tbl.seq + 1,
            rows |-> Append(tbl.rows,
                            [ID |-> tbl.seq + 1, UserID |-> userID, RPID |-> cred.RPID,
                             CredentialID |-> cred.CredentialID,
                             PublicKey |-> cred.PublicKey])], Nil>>

\* Mutant: the records of the user are deleted from the audit log too.
DeleteUser_PurgesAudit(rows, tbl, log, userID, foreignKeys) ==
    << SelectSeq(rows, LAMBDA u : u.ID # userID),
       IF foreignKeys
       THEN [tbl EXCEPT !.rows = SelectSeq(@, LAMBDA c : c.UserID # userID)]
       ELSE tbl,
       SelectSeq(log, LAMBDA r : r.user_id # userID) >>

\* Store.DeleteUser: <<table users, table credentials, audit log>> after
\* DELETE FROM users WHERE id = ?.  ON DELETE CASCADE removes the credentials
\* of the user when the connection enforces foreign keys.
DeleteUser(rows, tbl, log, userID, foreignKeys) ==
    << SelectSeq(rows, LAMBDA u : u.ID # userID),
       IF foreignKeys
       THEN [tbl EXCEPT !.rows = SelectSeq(@, LAMBDA c : c.UserID # userID)]
       ELSE tbl,
       log >>

\* ------------------------------------------------------------------------
\* internal/auth
\* ------------------------------------------------------------------------

\* auth.Principal
Principal(configUser, dbUser, sshUser) ==
    [ConfigUser |-> configUser, DBUser |-> dbUser, SSHUser |-> sshUser]

NoPrincipal == Principal(NoUser, NoUser, "")

ErrNoMatchingUser == "no matching lazyadmin user for current SSH user"
ErrUserNotFound == "user not found"

\* Store.FindUserBySSHUser: <<user, error>>, the first row one of whose
\* ssh_users is sshUser.
FindUserBySSHUser(rows, sshUser) ==
    LET hits == { i \in 1..Len(rows) : sshUser \in rows[i].SSHUsers }
    IN  IF hits = {} THEN <<NoUser, ErrUserNotFound>>
        ELSE <<rows[CHOOSE i \in hits : \A j \in hits : i <= j], Nil>>

\* Mutant: USER is read before SSH_USER.
CurrentSSHUser_UserFirst(e) ==
    IF e.USER # "" THEN e.USER
    ELSE IF e.SSH_USER # "" THEN e.SSH_USER
    ELSE IF e.Current[2] = Nil /\ e.Current[1] # "" THEN e.Current[1]
    ELSE "unknown"

\* auth.CurrentSSHUser
CurrentSSHUser(e) ==
    IF e.SSH_USER # "" THEN e.SSH_USER
    ELSE IF e.USER # "" THEN e.USER
    ELSE IF e.Current[2] = Nil /\ e.Current[1] # "" THEN e.Current[1]
    ELSE "unknown"

\* Mutant: the store is asked before the users of the configuration.
ResolvePrincipal_StoreFirst(c, rows, sshUser) ==
    LET hits == { i \in 1..Len(c.Users) : sshUser \in c.Users[i].SSHUsers }
        found == FindUserBySSHUser(rows, sshUser)
    IN  IF found[2] = Nil
        THEN <<Principal(found[1], found[1], sshUser), Nil>>
        ELSE IF hits # {}
        THEN <<Principal(c.Users[CHOOSE i \in hits : \A j \in hits : i <= j],
                         NoUser, sshUser), Nil>>
        ELSE <<NoPrincipal, ErrNoMatchingUser>>

\* auth.ResolvePrincipal: <<principal, error>>.  The users of the
\* configuration come first, in declaration order; then the store, whose
\* user is also copied into ConfigUser.
ResolvePrincipal(c, rows, sshUser) ==
    LET hits == { i \in 1..Len(c.Users) : sshUser \in c.Users[i].SSHUsers }
        found == FindUserBySSHUser(rows, sshUser)
    IN  IF hits # {}
        THEN <<Principal(c.Users[CHOOSE i \in hits : \A j \in hits : i <= j],
                         NoUser, sshUser), Nil>>
        ELSE IF found[2] = Nil
        THEN <<Principal(found[1], found[1], sshUser), Nil>>
        ELSE <<NoPrincipal, ErrNoMatchingUser>>

\* Principal.HasRole
HasRole(p, role) ==
    \/ p.ConfigUser # NoUser /\ role \in p.ConfigUser.Roles
    \/ p.DBUser # NoUser /\ role \in p.DBUser.Roles

\* Mutant: the role ops counts as an administrator.
IsAdmin_OpsToo(p) == HasRole(p, "admin") \/ HasRole(p, "owner") \/ HasRole(p, "ops")

\* Principal.IsAdmin
IsAdmin(p) == HasRole(p, "admin") \/ HasRole(p, "owner")

\* Mutant: a list of no role admits everybody.
HasAnyRole_EmptyAdmitsAll(p, roles) ==
    roles = {} \/ \E role \in roles : HasRole(p, role)

\* Principal.HasAnyRole
HasAnyRole(p, roles) == \E role \in roles : HasRole(p, role)

\* ------------------------------------------------------------------------
\* internal/auth: the second factor
\* ------------------------------------------------------------------------

ErrNoYubiCreds == "user has no configured YubiKey credentials"
ErrAssertionFailed == "YubiKey assertion failed"
ErrNoMatchingCredID == "assertion credential ID did not match any configured credential"
ErrNoDeviceFound == "no FIDO2 device found"
ErrFIDO2NotAvailable ==
    "FIDO2 support not available: libfido2-dev not installed. Install with: sudo apt-get install libfido2-dev"

\* config.YubiKeyCredential.  CredentialID is base64url text; PublicKey
\* stands for base64url text by what it decodes to: "p256" and "p384" are
\* SPKI documents of an ECDSA key on that curve, "rsa" one of an RSA key,
\* "junk" bytes that are no SPKI document and "!" text that is not base64url.
YubiKeyCredential(credentialID, publicKey) ==
    [RPID |-> "lazyadmin", CredentialID |-> credentialID, PublicKey |-> publicKey]

\* The credential ids a device holds: the one-byte strings "A" and "B".
CredentialBytes == {"A", "B"}

\* base64.RawURLEncoding.EncodeToString on CredentialBytes.
EncodeToString(bytes) == IF bytes = "A" THEN "QQ" ELSE "Qg"

\* base64.RawURLEncoding.DecodeString: <<bytes, error>>.  The decoder is not
\* strict: "QR" differs from "QQ" in its padding bits alone and decodes to
\* the same byte.
DecodeString(text) ==
    IF text \in {"QQ", "QR"} THEN <<"A", Nil>>
    ELSE IF text \in {"Qg", "Qh"} THEN <<"B", Nil>>
    ELSE <<"", "illegal base64 data at input byte 0">>

\* auth.AssertionResult
AssertionResult(credentialID, signature) ==
    [CredentialID |-> credentialID, Signature |-> signature, AuthData |-> "authData"]

NoAssertion == [CredentialID |-> "", Signature |-> "", AuthData |-> ""]

\* What the device and its library answer to one request: no device is
\* plugged in, the device refuses (no touch, unknown credential), or it
\* returns an assertion for one of its credentials.  Signature says whether
\* ecdsa.VerifyASN1 accepts it for the signed data under the key the
\* credential was registered with: "valid" or "forged".
DeviceAnswers ==
    {[kind |-> "none", CredentialID |-> "", Sig |-> "", AuthDataCBOR |-> ""],
     [kind |-> "refused", CredentialID |-> "", Sig |-> "", AuthDataCBOR |-> ""]}
    \cup { [kind |-> "assertion", CredentialID |-> b, Sig |-> sig, AuthDataCBOR |-> a] :
             b \in CredentialBytes, sig \in {"valid", "forged"}, a \in {"authData", ""} }

\* performAssertion: <<assertion, error>>.
performAssertion(allowCredentialID, dev) ==
    LET credIDBytes == DecodeString(allowCredentialID)
    IN  IF dev.kind = "none" THEN <<NoAssertion, ErrNoDeviceFound>>
        ELSE IF credIDBytes[2] # Nil
        THEN <<NoAssertion, "decode credential ID: " \o credIDBytes[2]>>
        ELSE IF dev.kind = "refused"
        THEN <<NoAssertion, "device assertion: refused">>
        ELSE IF dev.AuthDataCBOR = ""
        THEN <<NoAssertion, "empty auth data">>
        ELSE <<AssertionResult(EncodeToString(dev.CredentialID), dev.Sig), Nil>>

\* Mutant: a key on any curve is accepted.
verifyFIDO2Signature_AnyCurve(assertion, publicKeyB64URL) ==
    IF publicKeyB64URL = "!" THEN "decode public key: illegal base64 data at input byte 0"
    ELSE IF publicKeyB64URL = "junk" THEN "parse public key: asn1: structure error"
    ELSE IF publicKeyB64URL \notin {"p256", "p384"} THEN "public key is not P-256 ECDSA"
    ELSE IF assertion.Signature # "valid" THEN ErrAssertionFailed
    ELSE Nil

\* verifyFIDO2Signature: the error.  The stored key is "!" (no base64url
\* text), "junk" (no SubjectPublicKeyInfo), "rsa", "p384" or "p256".
verifyFIDO2Signature(assertion, publicKeyB64URL) ==
    IF publicKeyB64URL = "!" THEN "decode public key: illegal base64 data at input byte 0"
    ELSE IF publicKeyB64URL = "junk" THEN "parse public key: asn1: structure error"
    ELSE IF publicKeyB64URL # "p256" THEN "public key is not P-256 ECDSA"
    ELSE IF assertion.Signature # "valid" THEN ErrAssertionFailed
    ELSE Nil

\* What RequireFIDO2Assertion leaves behind: its error, the assertion the
\* device returned and the number of calls of verifyFIDO2Signature.
FIDO2Outcome(err, assertion, verified) ==
    [err |-> err, assertion |-> assertion, verified |-> verified]

\* No assertion was asked for.
NoFido == FIDO2Outcome(Nil, NoAssertion, 0)

\* No description was asked for.
NoDoc == [kind |-> "none", endpoints |-> << >>]

\* The environment CurrentSSHUser reads: the variables SSH_USER and USER
\* ("" when unset) and what user.Current returns, <<Username, error>>;
\* sshUser is the local of ResolvePrincipal ("" before the call).
Environment(sshUserVar, userVar, current) ==
    [SSH_USER |-> sshUserVar, USER |-> userVar, Current |-> current, sshUser |-> ""]

\* An environment nothing is read from.
NoEnv == Environment("", "", <<"", "user: Current not implemented">>)

\* The registerNewUser command: pc is "idle" when none is in flight, userID
\* and err are those of its userRegistrationMsg, started counts the
\* commands started.
Registration(pc_, userID, err, started) ==
    [pc |-> pc_, userID |-> userID, err |-> err, started |-> started]

\* No registration has been started.
NoRegistration == Registration("idle", "", Nil, 0)

\* Mutant: the signature is verified before the credential ids are compared.
RequireFIDO2Assertion_VerifiesFirst(user, dev) ==
    IF Len(user.YubiKeyCreds) = 0
    THEN FIDO2Outcome(ErrNoYubiCreds, NoAssertion, 0)
    ELSE LET cred == user.YubiKeyCreds[1]
             a == performAssertion(cred.CredentialID, dev)
             v == verifyFIDO2Signature(a[1], cred.PublicKey)
         IN  IF a[2] # Nil
             THEN FIDO2Outcome("fido2 assertion: " \o a[2], NoAssertion, 0)
             ELSE IF v # Nil
             THEN FIDO2Outcome("verify signature: " \o v, a[1], 1)
             ELSE IF a[1].CredentialID # cred.CredentialID
             THEN FIDO2Outcome(ErrNoMatchingCredID, a[1], 1)
             ELSE FIDO2Outcome(Nil, a[1], 1)

\* RequireFIDO2Assertion of the build with libfido2: the first credential of
\* the user is the one asked for.
RequireFIDO2Assertion(user, dev) ==
    IF Len(user.YubiKeyCreds) = 0
    THEN FIDO2Outcome(ErrNoYubiCreds, NoAssertion, 0)
    ELSE LET cred == user.YubiKeyCreds[1]
             a == performAssertion(cred.CredentialID, dev)
             v == verifyFIDO2Signature(a[1], cred.PublicKey)
         IN  IF a[2] # Nil
             THEN FIDO2Outcome("fido2 assertion: " \o a[2], NoAssertion, 0)
             ELSE IF a[1].CredentialID # cred.CredentialID
             THEN FIDO2Outcome(ErrNoMatchingCredID, a[1], 0)
             ELSE IF v # Nil
             THEN FIDO2Outcome("verify signature: " \o v, a[1], 1)
             ELSE FIDO2Outcome(Nil, a[1], 1)

\* RequireFIDO2Assertion of the build without libfido2.
RequireFIDO2AssertionStub(user) ==
    IF Len(user.YubiKeyCreds) = 0
    THEN FIDO2Outcome(ErrNoYubiCreds, NoAssertion, 0)
    ELSE FIDO2Outcome(ErrFIDO2NotAvailable, NoAssertion, 0)

\* RequireYubiKeyIfConfigured, in the build with libfido2 or without.
RequireYubiKeyIfConfigured(c, p, libfido2, dev) ==
    IF ~c.Auth.RequireYubiKey THEN NoFido
    ELSE IF p.ConfigUser = NoUser THEN FIDO2Outcome(ErrNoYubiCreds, NoAssertion, 0)
    ELSE IF libfido2 THEN RequireFIDO2Assertion(p.ConfigUser, dev)
    ELSE RequireFIDO2AssertionStub(p.ConfigUser)

\* ------------------------------------------------------------------------
\* internal/ui: the items of the list
\* ------------------------------------------------------------------------

filterAll == "all"
filterHTTP == "http"
filterPostgres == "postgres"

modeMain == "main"
modeLogs == "logs"
modeHelp == "help"
modeUsers == "users"

operationItem(o) == [kind |-> "operation", item |-> o]
taskItem(t) == [kind |-> "task", item |-> t]
userItem(u) == [kind |-> "user", item |-> u]

\* tasksToItems
tasksToItems(c, p) ==
    LET kept == SelectSeq(c.Tasks, LAMBDA t : HasAnyRole(p, t.AllowedRoles))
    IN  [i \in 1..Len(kept) |-> taskItem(kept[i])]

\* Mutant: under the filters HTTP and Postgres the roles are not looked at.
operationsToItems_FilterSkipsRoles(c, p, f) ==
    LET kept == SelectSeq(c.Operations,
                          LAMBDA o : /\ f = filterAll => HasAnyRole(p, o.AllowedRoles)
                                     /\ ~(f = filterHTTP /\ o.Type # "http")
                                     /\ ~(f = filterPostgres /\ o.Type # "postgres"))
    IN  [i \in 1..Len(kept) |-> operationItem(kept[i])]

\* operationsToItems
operationsToItems(c, p, f) ==
    LET kept == SelectSeq(c.Operations,
                          LAMBDA o : /\ HasAnyRole(p, o.AllowedRoles)
                                     /\ ~(f = filterHTTP /\ o.Type # "http")
                                     /\ ~(f = filterPostgres /\ o.Type # "postgres"))
    IN  [i \in 1..Len(kept) |-> operationItem(kept[i])]

\* NewModel: the fields of the front-end of a new session.
NewModel(c, p) ==
    /\ cfg = c
    /\ principal = p
    /\ mode = modeMain
    /\ filter = filterAll
    /\ viewTasks = FALSE
    /\ list = operationsToItems(c, p, filterAll)
    /\ userList = << >>

\* ------------------------------------------------------------------------
\* Initial state: NewModel after main has built the clients and the logger
\* ------------------------------------------------------------------------

\* The state in which a session starts: main has opened the log and the
\* store, built the clients and resolved the principal, and NewModel has
\* made the model; no command has run.
SessionWith(c, p, http, pg, logger) ==
    /\ httpClients = http
    /\ pgClients = pg
    /\ db = logger
    /\ auditLog = << >>
    /\ logRet = NoReturn
    /\ task = NoTask
    /\ pc = "idle"
    /\ idx = 0
    /\ res = NewTaskResult
    /\ stepPolicy = ""
    /\ sr = NoResult
    /\ ctxDone = FALSE
    /\ cancelledAt = 0
    /\ calls = << >>
    /\ op = NoOp
    /\ opc = "idle"
    /\ opOut = ""
    /\ opErr = Nil
    /\ opCtxDone = FALSE
    /\ lastOp = ""
    /\ lastOutput = ""
    /\ lastError = ""
    /\ lastTask = ""
    /\ lastTaskResult = NewTaskResult
    /\ lastSummary = ""
    /\ recent = NoRecent
    /\ users = StoreUsers
    /\ creds = NoCredentials
    /\ runs = 0
    /\ assertions = << >>
    /\ mainPc = "session"
    /\ exitCause = Nil
    /\ remote = << >>
    /\ fido = NoFido
    /\ doc = NoDoc
    /\ env = NoEnv
    /\ registeringUser = FALSE
    /\ registerStatus = ""
    /\ reg = NoRegistration
    /\ NewModel(c, p)

\* The session main starts: its logger has an open database.
SessionStart(c, p, http, pg) == SessionWith(c, p, http, pg, "open")

Init ==
    \E pg \in {{}, {"db"}} :
        SessionStart(SessionConfig,
                     ResolvePrincipal(SessionConfig, StoreUsers, PrincipalSSHUser)[1],
                     {"api"}, pg)

\* ------------------------------------------------------------------------
\* runTask and Runner.Run
\* ------------------------------------------------------------------------

\* updateMain, "enter" in the tasks view: the runTask command starts (the
\* runner main builds is never nil) and Run initialises its result.
runTask(t) ==
    /\ task' = t
    /\ pc' = "loop"
    /\ idx' = 1
    /\ res' = NewTaskResult
    /\ stepPolicy' = ""
    /\ sr' = NoResult
    /\ ctxDone' = FALSE
    /\ cancelledAt' = 0
    /\ calls' = << >>

\* "enter" on a task of the main view, no command being in flight.
EnterTask ==
    /\ pc = "idle" /\ opc = "idle"
    /\ \E t \in Tasks : runTask(t)
    /\ UNCHANGED <<logVars, clientVars, opVars, uiVars>>
    /\ UNCHANGED extVars

\* Mutant: the result of a step that failed is not stored.
WithStep_FailureDropped(steps, result) ==
    IF result.Err # Nil THEN steps
    ELSE [id \in (DOMAIN steps) \cup {result.Step.ID} |->
            IF id = result.Step.ID THEN result ELSE steps[id]]

\* Run, line 70: res.Steps after result is stored under the id of its step.
WithStep(steps, result) ==
    [id \in (DOMAIN steps) \cup {result.Step.ID} |->
        IF id = result.Step.ID THEN result ELSE steps[id]]

\* Run, lines 61-70: the next step starts.  Its id is appended to StepOrder
\* and its policy resolved; runStep either calls the driver or fails at once.
StartStep ==
    /\ pc = "loop"
    /\ idx <= Len(task.Steps)
    /\ LET step == task.Steps[idx]
           d == runStepDispatch(step, httpClients, pgClients)
       IN  /\ stepPolicy' = EffectivePolicy(task, step)
           /\ IF d = "call"
              THEN /\ res' = [res EXCEPT !.StepOrder = Append(@, step.ID)]
                   /\ calls' = Append(calls, <<"invoke", idx>>)
                   /\ pc' = "driver"
                   /\ sr' = sr
              ELSE /\ sr' = StepResult(step, "", d)
                   /\ res' = [res EXCEPT !.StepOrder = Append(@, step.ID),
                                         !.Steps = WithStep(@, StepResult(step, "", d))]
                   /\ calls' = calls
                   /\ pc' = "logStep"
    /\ UNCHANGED <<task, idx, ctxDone, cancelledAt>>
    /\ UNCHANGED <<logVars, clientVars, opVars, uiVars>>
    /\ UNCHANGED extVars

\* Run, line 61: no step is left.
EndLoop ==
    /\ pc = "loop"
    /\ idx > Len(task.Steps)
    /\ pc' = "logTask"
    /\ UNCHANGED <<task, idx, res, stepPolicy, sr, ctxDone, cancelledAt, calls>>
    /\ UNCHANGED <<logVars, clientVars, opVars, uiVars>>
    /\ UNCHANGED extVars

\* runStep: the driver returns; Run stores the result (line 70).
DriverReturn ==
    /\ pc = "driver"
    /\ LET step == task.Steps[idx]
       IN  \E r \in DriverReturns(step.Type, ctxDone) :
              /\ sr' = StepResult(step, r[1], r[2])
              /\ res' = [res EXCEPT !.Steps = WithStep(@, StepResult(step, r[1], r[2]))]
    /\ calls' = Append(calls, <<"return", idx>>)
    /\ pc' = "logStep"
    /\ UNCHANGED <<task, idx, stepPolicy, ctxDone, cancelledAt>>
    /\ UNCHANGED <<logVars, clientVars, opVars, uiVars>>
    /\ UNCHANGED extVars

\* The deadline of the context of runTask passes while a step is active (the
\* context is read by the drivers alone: logStep and logTask use
\* context.Background()).
CtxExpire ==
    /\ pc = "driver"
    /\ ~ctxDone
    /\ ctxDone' = TRUE
    /\ cancelledAt' = idx
    /\ UNCHANGED <<task, pc, idx, res, stepPolicy, sr, calls>>
    /\ UNCHANGED <<logVars, clientVars, opVars, uiVars>>
    /\ UNCHANGED extVars

\* Run, line 72: logStep, under context.Background().
LogStep ==
    /\ pc = "logStep"
    /\ LET l == Log(db, auditLog, FALSE, StepEntry(task.ID, sr))
       IN  auditLog' = l[1] /\ logRet' = LogReturned(logRet, l[2])
    /\ pc' = "decide"
    /\ UNCHANGED <<db, task, idx, res, stepPolicy, sr, ctxDone, cancelledAt, calls>>
    /\ UNCHANGED <<clientVars, opVars, uiVars>>
    /\ UNCHANGED extVars

\* Mutant: a failure under warn stops the run.
Decide_WarnStops(success, result, policy) ==
    IF result.Err # Nil
    THEN CASE policy = StepOnErrorFail -> <<FALSE, TRUE>>
           [] policy = StepOnErrorWarn -> <<FALSE, TRUE>>
           [] OTHER -> <<success, FALSE>>
    ELSE <<success, FALSE>>

\* Mutant: a failure under continue marks the task failed.
Decide_ContinueFails(success, result, policy) ==
    IF result.Err # Nil
    THEN CASE policy = StepOnErrorFail -> <<FALSE, TRUE>>
           [] policy = StepOnErrorWarn -> <<FALSE, FALSE>>
           [] OTHER -> <<FALSE, FALSE>>
    ELSE <<success, FALSE>>

\* Run, lines 74-86: <<Success afterwards, whether the loop breaks>>.
Decide(success, result, policy) ==
    IF result.Err # Nil
    THEN CASE policy = StepOnErrorFail -> <<FALSE, TRUE>>
           [] policy = StepOnErrorWarn -> <<FALSE, FALSE>>
           [] policy = StepOnErrorContinue -> <<success, FALSE>>
           [] OTHER -> <<success, FALSE>>
    ELSE <<success, FALSE>>

\* Run, lines 74-87: the policy is applied to the result of the step.
ApplyPolicy ==
    /\ pc = "decide"
    /\ LET d == Decide(res.Success, sr, stepPolicy)
       IN  /\ res' = [res EXCEPT !.Success = d[1]]
           /\ IF d[2]
              THEN pc' = "logTask" /\ idx' = idx
              ELSE pc' = "loop" /\ idx' = idx + 1
    /\ UNCHANGED <<task, stepPolicy, sr, ctxDone, cancelledAt, calls>>
    /\ UNCHANGED <<logVars, clientVars, opVars, uiVars>>
    /\ UNCHANGED extVars

\* Run, line 89: logTask, under context.Background(); Run returns.
LogTask ==
    /\ pc = "logTask"
    /\ LET l == Log(db, auditLog, FALSE, TaskEntry(task.ID, res.Success))
       IN  auditLog' = l[1] /\ logRet' = LogReturned(logRet, l[2])
    /\ pc' = "returned"
    /\ UNCHANGED <<db, task, idx, res, stepPolicy, sr, ctxDone, cancelledAt, calls>>
    /\ UNCHANGED <<clientVars, opVars, uiVars>>
    /\ UNCHANGED extVars

\* runTask, lines 574-583, and updateMain, case taskResultMsg: the summary
\* is rendered and the message reaches the model.
TaskResultMsg ==
    /\ pc = "returned"
    /\ lastTask' = task.ID
    /\ lastTaskResult' = res
    /\ LET r == RenderSummary(task, res)
       IN  lastSummary' = (IF r[2] # Nil THEN "error rendering summary: " \o r[2]
                           ELSE r[1])
    /\ pc' = "shown"
    /\ UNCHANGED <<task, idx, res, stepPolicy, sr, ctxDone, cancelledAt, calls>>
    /\ UNCHANGED <<lastOp, lastOutput, lastError>>
    /\ UNCHANGED <<logVars, clientVars, opVars>>
    /\ UNCHANGED extVars

\* ------------------------------------------------------------------------
\* runOperation
\* ------------------------------------------------------------------------

\* runOperation, lines 520-537, before any client call: "call" when the
\* target has a client, else the error.
opDispatch(o, http, pg) ==
    CASE o.Type = "http" ->
            IF o.Target \in http THEN "call"
            ELSE "no http resource named \"" \o o.Target \o "\""
      [] o.Type = "postgres" ->
            IF o.Target \in pg THEN "call"
            ELSE "no postgres resource named \"" \o o.Target \o "\""
      [] OTHER -> "unsupported op type: " \o o.Type

\* What the client of an operation can return.
ClientReturns(type, ctxIsDone) ==
    IF type = "http" THEN HTTPRequest(ctxIsDone) ELSE RunScalarQuery(ctxIsDone)

\* updateMain, "enter" in the operations view: the runOperation command
\* starts, creates its context and dispatches on the type.
runOperation(o) ==
    /\ op' = o
    /\ LET d == opDispatch(o, httpClients, pgClients)
       IN  IF d = "call"
           THEN opc' = "call" /\ opErr' = Nil
           ELSE opc' = "log" /\ opErr' = d
    /\ opOut' = ""
    /\ opCtxDone' = FALSE

\* "enter" on an operation of the main view, no command being in flight.
EnterOp ==
    /\ pc = "idle" /\ opc = "idle"
    /\ \E o \in Operations : runOperation(o)
    /\ UNCHANGED <<logVars, clientVars, runVars, uiVars>>
    /\ UNCHANGED extVars

\* The client call of the operation returns.
OpReturn ==
    /\ opc = "call"
    /\ \E r \in ClientReturns(op.Type, opCtxDone) :
          opOut' = r[1] /\ opErr' = r[2]
    /\ opc' = "log"
    /\ UNCHANGED <<op, opCtxDone>>
    /\ UNCHANGED <<logVars, clientVars, runVars, uiVars>>
    /\ UNCHANGED extVars

\* The deadline of the context of runOperation passes while the client call
\* is in flight.
OpCtxExpire ==
    /\ opc = "call"
    /\ ~opCtxDone
    /\ opCtxDone' = TRUE
    /\ UNCHANGED <<op, opc, opOut, opErr>>
    /\ UNCHANGED <<logVars, clientVars, runVars, uiVars>>
    /\ UNCHANGED extVars

\* runOperation, lines 539-548: the entry of an operation.
OpEntry(o, err) ==
    AuditEntry(o.ID, err = Nil, IF err # Nil THEN err ELSE "")

\* Mutant: the error of a failed append replaces the error of the operation.
errAfterLog_AuditErrorWins(err, logErr) == IF logErr # Nil THEN logErr ELSE err

\* runOperation, lines 550-555: the error of Log is dropped ("_ ="); err is
\* what the dispatch or the client returned.
errAfterLog(err, logErr) == err

\* runOperation, line 550: the entry is logged under the context of the
\* operation.
OpLog ==
    /\ opc = "log"
    /\ LET l == Log(db, auditLog, opCtxDone, OpEntry(op, opErr))
       IN  /\ auditLog' = l[1]
           /\ logRet' = LogReturned(logRet, l[2])
           /\ opErr' = errAfterLog(opErr, l[2])
    /\ opc' = "returned"
    /\ UNCHANGED <<db, op, opOut, opCtxDone>>
    /\ UNCHANGED <<clientVars, runVars, uiVars>>
    /\ UNCHANGED extVars

\* runOperation, lines 552-555, and updateMain, case operationResultMsg.
OperationResultMsg ==
    /\ opc = "returned"
    /\ lastOp' = op.ID
    /\ lastOutput' = (IF opErr # Nil THEN "" ELSE opOut)
    /\ lastError' = (IF opErr # Nil THEN opErr ELSE "")
    /\ opc' = "shown"
    /\ UNCHANGED <<op, opOut, opErr, opCtxDone>>
    /\ UNCHANGED <<lastTask, lastTaskResult, lastSummary>>
    /\ UNCHANGED <<logVars, clientVars, runVars>>
    /\ UNCHANGED extVars

Next ==
    \/ EnterTask
    \/ StartStep
    \/ EndLoop
    \/ DriverReturn
    \/ CtxExpire
    \/ LogStep
    \/ ApplyPolicy
    \/ LogTask
    \/ TaskResultMsg
    \/ EnterOp
    \/ OpReturn
    \/ OpCtxExpire
    \/ OpLog
    \/ OperationResultMsg

Spec == Init /\ [][Next]_vars

\* ------------------------------------------------------------------------
\* Executions whose audit appends can fail
\* ------------------------------------------------------------------------

\* The steps of the tasks run here: a request to a declared HTTP resource,
\* and a type the runner has no driver for.
AuditStepKinds ==
    { [Type |-> "http", Resource |-> "api"],
      [Type |-> "redis", Resource |-> "cache"] }

AuditTasks ==
    { [ID |-> "deploy", OnError |-> p, Steps |-> s, SummaryTemplate |-> ""] :
        p \in TaskPolicies,
        s \in UNION { { [i \in 1..n |-> TaskStep(i, kp[i][1], kp[i][2])] :
                           kp \in [1..n -> AuditStepKinds \X StepPolicies] } :
                       n \in 1..MaxSteps } }

\* "enter" on a task of the main view.
EnterAuditTask ==
    /\ pc = "idle" /\ opc = "idle"
    /\ \E t \in AuditTasks : runTask(t)
    /\ UNCHANGED <<logVars, clientVars, opVars, uiVars>>
    /\ UNCHANGED extVars

\* AuditLogger.Close, deferred by main: it runs when the program quits,
\* while a command may still be running.  Every later append fails.
Close ==
    /\ db = "open"
    /\ db' = CloseDB(db)[1]
    /\ logRet' = CloseReturned(logRet, CloseDB(db)[2])
    /\ UNCHANGED <<auditLog, clientVars, runVars, opVars, uiVars>>
    /\ UNCHANGED extVars

NextAudit ==
    \/ EnterAuditTask
    \/ StartStep
    \/ EndLoop
    \/ DriverReturn
    \/ CtxExpire
    \/ LogStep
    \/ ApplyPolicy
    \/ LogTask
    \/ TaskResultMsg
    \/ EnterOp
    \/ OpReturn
    \/ OpCtxExpire
    \/ OpLog
    \/ OperationResultMsg
    \/ Close

SpecAudit == Init /\ [][NextAudit]_vars

\* ------------------------------------------------------------------------
\* The audit log on its own: appends and reads
\* ------------------------------------------------------------------------

\* Entries of an operation that succeeded and of a task that failed.
LogEntries ==
    { AuditEntry("op_http", TRUE, ""),
      AuditEntry("task:deploy step:s1", FALSE, "connection refused") }

\* The users the store is asked to create: the principal of the session
\* under another name of the store, and the user registerNewUser makes.
NewUsers ==
    { User(PrincipalUserID, {"root"}, {"read_only"}, << >>),
      User("user_1", {"user_1"}, {"read_only"}, << >>) }

\* The credentials added: what RegisterFIDO2Credential returned.
NewCredentials ==
    { [RPID |-> "lazyadmin.local", CredentialID |-> "QQ", PublicKey |-> "p256"] }

\* AuditLogger.Log under a live context.
AppendEntry ==
    /\ Len(auditLog) < MaxRecords
    /\ \E e \in LogEntries :
          LET l == Log(db, auditLog, FALSE, e)
          IN  auditLog' = l[1] /\ logRet' = LogReturned(logRet, l[2])
    /\ UNCHANGED <<db, clientVars, runVars, opVars, uiVars, extVars>>

\* logging.ReadRecent(l, limit).
ReadRecentCall ==
    /\ \E limit \in 0..(MaxRecords + 1) :
          LET r == ReadRecent(db, auditLog, limit)
          IN  recent' = [limit |-> limit, count |-> Len(auditLog),
                         rows |-> r[1], err |-> r[2]]
    /\ UNCHANGED <<logVars, clientVars, runVars, opVars, uiVars, feVars, startVars, regVars>>

\* Store.CreateUser on the database file.
StoreCreateUser ==
    /\ \E u \in NewUsers : users' = CreateUser(users, u)[1]
    /\ UNCHANGED <<regVars, startVars, cfg, principal, creds, mode, filter, viewTasks, list, userList,
                   runs, assertions, recent>>
    /\ UNCHANGED <<logVars, clientVars, runVars, opVars, uiVars>>

\* Store.AddCredential on the database file.
StoreAddCredential ==
    /\ creds.seq < MaxRecords
    /\ \E u \in NewUsers, c \in NewCredentials :
          creds' = AddCredential(creds, u.ID, c)[1]
    /\ UNCHANGED <<regVars, startVars, cfg, principal, users, mode, filter, viewTasks, list, userList,
                   runs, assertions, recent>>
    /\ UNCHANGED <<logVars, clientVars, runVars, opVars, uiVars>>

\* Store.DeleteUser on the database file; whether the connection enforces
\* foreign keys is the choice of the driver.
StoreDeleteUser ==
    /\ \E u \in NewUsers, foreignKeys \in BOOLEAN :
          LET d == DeleteUser(users, creds, auditLog, u.ID, foreignKeys)
          IN  users' = d[1] /\ creds' = d[2] /\ auditLog' = d[3]
    /\ UNCHANGED <<regVars, startVars, cfg, principal, mode, filter, viewTasks, list, userList,
                   runs, assertions, recent>>
    /\ UNCHANGED <<db, logRet, clientVars, runVars, opVars, uiVars>>

\* withLoadedLogs: the logs view reads the table.
ViewLogs ==
    /\ LET r == ReadRecent(db, auditLog, RecentLimit)
       IN  recent' = [limit |-> RecentLimit, count |-> Len(auditLog),
                      rows |-> r[1], err |-> r[2]]
    /\ UNCHANGED <<logVars, clientVars, runVars, opVars, uiVars, feVars, startVars, regVars>>

\* The session whose log and store are used.
InitLog ==
    SessionStart(SessionConfig,
                 ResolvePrincipal(SessionConfig, StoreUsers, PrincipalSSHUser)[1],
                 {"api"}, {"db"})

NextLog ==
    \/ AppendEntry
    \/ ReadRecentCall
    \/ Close

SpecLog == InitLog /\ [][NextLog]_vars

\* ------------------------------------------------------------------------
\* Close called again
\* ------------------------------------------------------------------------

\* The calls of Close made on one logger.
MaxCloses == 3

\* AuditLogger.Close on a logger that was closed before.
CloseAgain ==
    /\ db = "closed"
    /\ logRet.closes < MaxCloses
    /\ db' = CloseDB(db)[1]
    /\ logRet' = CloseReturned(logRet, CloseDB(db)[2])
    /\ UNCHANGED <<auditLog, clientVars, runVars, opVars, uiVars>>
    /\ UNCHANGED extVars

NextClose ==
    \/ AppendEntry
    \/ ReadRecentCall
    \/ Close
    \/ CloseAgain

SpecClose == InitLog /\ [][NextClose]_vars

\* Every statement the program issues on the database file.
NextStore ==
    \/ AppendEntry
    \/ ViewLogs
    \/ StoreCreateUser
    \/ StoreAddCredential
    \/ StoreDeleteUser
    \/ Close

SpecStore == InitLog /\ [][NextStore]_vars

\* ------------------------------------------------------------------------
\* internal/ui: the front-end of a session
\* ------------------------------------------------------------------------

\* The ambient identities sessions start under: a user of the configuration
\* with role admin, a user of the store with role ops, and a user of the
\* configuration whose role no item allows.
SessionSSHUsers == {"alice", "bob", "carol"}

InitUI ==
    \E u \in SessionSSHUsers :
        SessionStart(SessionConfig,
                     ResolvePrincipal(SessionConfig, StoreUsers, u)[1],
                     {"api"}, {"db"})

\* updateMain, "enter" in the tasks view: the selected item, if it is a
\* task, is run.  The selected item is any item of the list.
KeyEnterTask ==
    /\ mode = modeMain /\ viewTasks
    /\ pc = "idle" /\ runs < MaxRuns
    /\ \E i \in DOMAIN list : list[i].kind = "task" /\ runTask(list[i].item)
    /\ runs' = runs + 1
    /\ UNCHANGED <<regVars, startVars, cfg, principal, users, creds, mode, filter, viewTasks, list, userList,
                   assertions, recent>>
    /\ UNCHANGED <<logVars, clientVars, opVars, uiVars>>

\* updateMain, "enter" in the operations view: the selected item, if it is
\* an operation, is run.
KeyEnterOp ==
    /\ mode = modeMain /\ ~viewTasks
    /\ opc = "idle" /\ runs < MaxRuns
    /\ \E i \in DOMAIN list :
          list[i].kind = "operation" /\ runOperation(list[i].item)
    /\ runs' = runs + 1
    /\ UNCHANGED <<regVars, startVars, cfg, principal, users, creds, mode, filter, viewTasks, list, userList,
                   assertions, recent>>
    /\ UNCHANGED <<logVars, clientVars, runVars, uiVars>>

\* updateMain, "t": the view is toggled and the list rebuilt.
KeyT ==
    /\ mode = modeMain
    /\ viewTasks' = ~viewTasks
    /\ list' = (IF ~viewTasks THEN tasksToItems(cfg, principal)
                ELSE operationsToItems(cfg, principal, filter))
    /\ UNCHANGED <<regVars, startVars, cfg, principal, users, creds, mode, filter, userList, runs, assertions,
                   recent>>
    /\ UNCHANGED <<logVars, clientVars, runVars, opVars, uiVars>>

\* updateMain, "a", "h", "p": in the operations view the filter is set and
\* the list rebuilt.
KeyFilter ==
    /\ mode = modeMain /\ ~viewTasks
    /\ \E f \in {filterAll, filterHTTP, filterPostgres} :
          /\ filter' = f
          /\ list' = operationsToItems(cfg, principal, f)
    /\ UNCHANGED <<regVars, startVars, cfg, principal, users, creds, mode, viewTasks, userList, runs,
                   assertions, recent>>
    /\ UNCHANGED <<logVars, clientVars, runVars, opVars, uiVars>>

\* updateMain, "l", and withLoadedLogs.
KeyL ==
    /\ mode = modeMain
    /\ mode' = modeLogs
    /\ LET r == ReadRecent(db, auditLog, RecentLimit)
       IN  /\ recent' = [limit |-> RecentLimit, count |-> Len(auditLog),
                         rows |-> r[1], err |-> r[2]]
           /\ lastError' = (IF r[2] # Nil THEN "read logs: " \o r[2] ELSE lastError)
    /\ UNCHANGED <<regVars, startVars, cfg, principal, users, creds, filter, viewTasks, list, userList, runs,
                   assertions>>
    /\ UNCHANGED <<lastOp, lastOutput, lastTask, lastTaskResult, lastSummary>>
    /\ UNCHANGED <<logVars, clientVars, runVars, opVars>>

\* updateMain, "u", and withLoadedUsers: for an admin the mode changes and
\* the rows of the store replace the items of the list; for anybody else
\* nothing changes.
KeyU ==
    /\ mode = modeMain
    /\ IF IsAdmin(principal)
       THEN /\ mode' = modeUsers
            /\ userList' = users
            /\ list' = [i \in DOMAIN users |-> userItem(users[i])]
       ELSE UNCHANGED <<mode, userList, list>>
    /\ UNCHANGED <<regVars, startVars, cfg, principal, users, creds, filter, viewTasks, runs, assertions,
                   recent>>
    /\ UNCHANGED <<logVars, clientVars, runVars, opVars, uiVars>>

\* updateMain, "?".
KeyHelp ==
    /\ mode = modeMain
    /\ mode' = modeHelp
    /\ UNCHANGED <<regVars, startVars, cfg, principal, users, creds, filter, viewTasks, list, userList, runs,
                   assertions, recent>>
    /\ UNCHANGED <<logVars, clientVars, runVars, opVars, uiVars>>

\* updateLogs and updateUsers, "q" or "esc"; updateHelp, any key.
KeyBack ==
    /\ mode \in {modeLogs, modeUsers, modeHelp}
    /\ mode' = modeMain
    /\ registerStatus' = (IF mode = modeUsers THEN "" ELSE registerStatus)
    /\ UNCHANGED <<registeringUser, reg>>
    /\ UNCHANGED <<startVars, cfg, principal, users, creds, filter, viewTasks, list, userList, runs,
                   assertions, recent>>
    /\ UNCHANGED <<logVars, clientVars, runVars, opVars, uiVars>>

\* Update on the operationResultMsg of a command that returned: updateMain
\* stores it; updateLogs, updateHelp and updateUsers have no case for it.
\* The command is over.
DeliverOperationResult ==
    /\ opc = "returned"
    /\ IF mode = modeMain
       THEN /\ lastOp' = op.ID
            /\ lastOutput' = (IF opErr # Nil THEN "" ELSE opOut)
            /\ lastError' = (IF opErr # Nil THEN opErr ELSE "")
       ELSE UNCHANGED <<lastOp, lastOutput, lastError>>
    /\ op' = NoOp
    /\ opc' = "idle"
    /\ opOut' = ""
    /\ opErr' = Nil
    /\ opCtxDone' = FALSE
    /\ UNCHANGED <<lastTask, lastTaskResult, lastSummary>>
    /\ UNCHANGED <<logVars, clientVars, runVars, extVars>>

\* Update on the taskResultMsg of a command that returned.
DeliverTaskResult ==
    /\ pc = "returned"
    /\ IF mode = modeMain
       THEN /\ lastTask' = task.ID
            /\ lastTaskResult' = res
            /\ LET r == RenderSummary(task, res)
               IN  lastSummary' = (IF r[2] # Nil
                                   THEN "error rendering summary: " \o r[2]
                                   ELSE r[1])
       ELSE UNCHANGED <<lastTask, lastTaskResult, lastSummary>>
    /\ task' = NoTask
    /\ pc' = "idle"
    /\ idx' = 0
    /\ res' = NewTaskResult
    /\ stepPolicy' = ""
    /\ sr' = NoResult
    /\ ctxDone' = FALSE
    /\ cancelledAt' = 0
    /\ calls' = << >>
    /\ UNCHANGED <<lastOp, lastOutput, lastError>>
    /\ UNCHANGED <<logVars, clientVars, opVars, extVars>>

NextUI ==
    \/ KeyEnterTask
    \/ KeyEnterOp
    \/ KeyT
    \/ KeyFilter
    \/ KeyL
    \/ KeyU
    \/ KeyHelp
    \/ KeyBack
    \/ StartStep
    \/ EndLoop
    \/ DriverReturn
    \/ CtxExpire
    \/ LogStep
    \/ ApplyPolicy
    \/ LogTask
    \/ DeliverTaskResult
    \/ OpReturn
    \/ OpCtxExpire
    \/ OpLog
    \/ DeliverOperationResult

SpecUI == InitUI /\ [][NextUI]_vars

\* ------------------------------------------------------------------------
\* internal/ui: users mode and registerNewUser
\* ------------------------------------------------------------------------

\* The registrations one session starts.
MaxRegistrations == 2

\* The ids registerNewUser makes of time.Now().Unix(): those of two seconds.
RegistrationIDs == {"user_1", "user_2"}

\* updateUsers, "n": unless a registration is in flight, the flag is set
\* and the registerNewUser command starts.  With the flag set the key goes
\* to the list, which has no binding for it.
KeyN ==
    /\ mode = modeUsers
    /\ IF ~registeringUser /\ reg.started < MaxRegistrations
       THEN /\ registeringUser' = TRUE
            /\ registerStatus' = "Starting registration..."
            /\ reg' = Registration("register", "", Nil, reg.started + 1)
       ELSE UNCHANGED regVars
    /\ UNCHANGED <<startVars, feVars, recent>>
    /\ UNCHANGED <<logVars, clientVars, runVars, opVars, uiVars>>

\* registerNewUser, lines 701-705: RegisterFIDO2Credential returns a
\* credential, or an error (no device, no touch, the build without
\* libfido2), with which the command returns.
RegisterCredential ==
    /\ reg.pc = "register"
    /\ \E err \in {Nil, ErrNoDeviceFound, ErrFIDO2NotAvailable} :
          reg' = IF err # Nil
                 THEN [reg EXCEPT !.pc = "returned", !.err = "register credential: " \o err]
                 ELSE [reg EXCEPT !.pc = "create"]
    /\ UNCHANGED <<registeringUser, registerStatus>>
    /\ UNCHANGED <<startVars, feVars, recent>>
    /\ UNCHANGED <<logVars, clientVars, runVars, opVars, uiVars>>

\* registerNewUser, lines 709-720: the user is created under the id of the
\* second, or the command returns with the error of CreateUser.
RegisterCreateUser ==
    /\ reg.pc = "create"
    /\ \E id \in RegistrationIDs :
          LET r == CreateUser(users, User(id, {id}, {"read_only"}, << >>))
          IN  /\ users' = r[1]
              /\ reg' = IF r[2] # Nil
                        THEN [reg EXCEPT !.pc = "returned", !.err = "create user: " \o r[2]]
                        ELSE [reg EXCEPT !.pc = "add", !.userID = id]
    /\ UNCHANGED <<registeringUser, registerStatus>>
    /\ UNCHANGED <<startVars, cfg, principal, creds, mode, filter, viewTasks, list, userList,
                   runs, assertions, recent>>
    /\ UNCHANGED <<logVars, clientVars, runVars, opVars, uiVars>>

\* registerNewUser, lines 723-736: the credential is added and the command
\* returns the id, or AddCredential fails (the 60 s context is done, the
\* row exists) and the clean-up follows.
RegisterAddCredential ==
    /\ reg.pc = "add"
    /\ \E cred \in NewCredentials, ctxIsDone \in BOOLEAN :
          LET r == IF ctxIsDone THEN <<creds, "context deadline exceeded">>
                   ELSE AddCredential(creds, reg.userID, cred)
          IN  /\ creds' = r[1]
              /\ reg' = IF r[2] # Nil
                        THEN [reg EXCEPT !.pc = "cleanup", !.err = "add credential: " \o r[2]]
                        ELSE [reg EXCEPT !.pc = "returned"]
    /\ UNCHANGED <<registeringUser, registerStatus>>
    /\ UNCHANGED <<startVars, cfg, principal, users, mode, filter, viewTasks, list, userList,
                   runs, assertions, recent>>
    /\ UNCHANGED <<logVars, clientVars, runVars, opVars, uiVars>>

\* registerNewUser, line 732: DeleteUser under the same context, its error
\* discarded; the command returns the error of AddCredential.
RegisterCleanup ==
    /\ reg.pc = "cleanup"
    /\ \E failed \in BOOLEAN, foreignKeys \in BOOLEAN :
          LET d == IF failed THEN <<users, creds, auditLog>>
                   ELSE DeleteUser(users, creds, auditLog, reg.userID, foreignKeys)
          IN  users' = d[1] /\ creds' = d[2]
    /\ reg' = [reg EXCEPT !.pc = "returned", !.userID = ""]
    /\ UNCHANGED <<registeringUser, registerStatus>>
    /\ UNCHANGED <<startVars, cfg, principal, mode, filter, viewTasks, list, userList,
                   runs, assertions, recent>>
    /\ UNCHANGED <<logVars, clientVars, runVars, opVars, uiVars>>

\* Update on the userRegistrationMsg of the command: updateUsers clears the
\* flag, sets the status and, on success, loads the users again;
\* updateMain, updateLogs and updateHelp have no case for the message.
DeliverRegistration ==
    /\ reg.pc = "returned"
    /\ IF mode = modeUsers
       THEN /\ registeringUser' = FALSE
            /\ IF reg.err # Nil
               THEN /\ registerStatus' = "Registration failed: " \o reg.err
                    /\ UNCHANGED <<userList, list>>
               ELSE /\ registerStatus' =
                         "User " \o reg.userID \o " registered successfully!"
                    /\ userList' = users
                    /\ list' = [i \in DOMAIN users |-> userItem(users[i])]
       ELSE UNCHANGED <<registeringUser, registerStatus, userList, list>>
    /\ reg' = Registration("idle", "", Nil, reg.started)
    /\ UNCHANGED <<startVars, cfg, principal, users, creds, mode, filter, viewTasks,
                   runs, assertions, recent>>
    /\ UNCHANGED <<logVars, clientVars, runVars, opVars, uiVars>>

NextUsers ==
    \/ KeyU
    \/ KeyN
    \/ KeyL
    \/ KeyHelp
    \/ KeyBack
    \/ RegisterCredential
    \/ RegisterCreateUser
    \/ RegisterAddCredential
    \/ RegisterCleanup
    \/ DeliverRegistration

SpecUsers == InitUI /\ [][NextUsers]_vars

\* ------------------------------------------------------------------------
\* The session of a model whose logger has no database
\* ------------------------------------------------------------------------

\* NewModel with &AuditLogger{db: nil}, the principal being alice.
InitNullLog ==
    SessionWith(SessionConfig,
                ResolvePrincipal(SessionConfig, StoreUsers, PrincipalSSHUser)[1],
                {"api"}, {"db"}, "nil")

NextNullLog ==
    \/ KeyEnterTask
    \/ KeyEnterOp
    \/ KeyT
    \/ KeyFilter
    \/ KeyL
    \/ KeyBack
    \/ StartStep
    \/ EndLoop
    \/ DriverReturn
    \/ CtxExpire
    \/ LogStep
    \/ ApplyPolicy
    \/ LogTask
    \/ DeliverTaskResult
    \/ OpReturn
    \/ OpCtxExpire
    \/ OpLog
    \/ DeliverOperationResult
    \/ AppendEntry

SpecNullLog == InitNullLog /\ [][NextNullLog]_vars

\* ------------------------------------------------------------------------
\* Commands that run at the same time: one operation and one task
\* ------------------------------------------------------------------------

\* The tasks run here: best_effort tasks of http steps.
ConcurrentTasks ==
    { [ID |-> "deploy", OnError |-> OnErrorBestEffort,
       Steps |-> [i \in 1..n |-> TaskStep(i, [Type |-> "http", Resource |-> "api"], "")],
       SummaryTemplate |-> ""] : n \in 1..MaxSteps }

\* "enter" on an operation of the list, whether a task is running or not.
ConcurrentEnterOp ==
    /\ opc = "idle"
    /\ \E i \in DOMAIN list :
          list[i].kind = "operation" /\ runOperation(list[i].item)
    /\ UNCHANGED <<logVars, clientVars, runVars, uiVars, extVars>>

\* "enter" on a task, whether an operation is running or not.
ConcurrentEnterTask ==
    /\ pc = "idle"
    /\ \E t \in ConcurrentTasks : runTask(t)
    /\ UNCHANGED <<logVars, clientVars, opVars, uiVars, extVars>>

NextConcurrent ==
    \/ ConcurrentEnterOp
    \/ ConcurrentEnterTask
    \/ StartStep
    \/ EndLoop
    \/ DriverReturn
    \/ CtxExpire
    \/ LogStep
    \/ ApplyPolicy
    \/ LogTask
    \/ TaskResultMsg
    \/ OpReturn
    \/ OpCtxExpire
    \/ OpLog
    \/ OperationResultMsg

SpecConcurrent == Init /\ [][NextConcurrent]_vars

\* ------------------------------------------------------------------------
\* Runner.Run on its own, with an audit logger or without
\* ------------------------------------------------------------------------

\* The steps of the tasks run here: one whose driver is called, one whose
\* resource has no client and one of a type without a driver.
RunStepKinds ==
    { [Type |-> "http", Resource |-> "api"],
      [Type |-> "postgres", Resource |-> "db"],
      [Type |-> "redis", Resource |-> "cache"] }

\* The tasks run here.
RunTasks ==
    { [ID |-> "deploy", OnError |-> p, Steps |-> s, SummaryTemplate |-> ""] :
        p \in {"", OnErrorBestEffort},
        s \in UNION { { [i \in 1..n |-> TaskStep(i, kp[i][1], kp[i][2])] :
                          kp \in [1..n -> RunStepKinds \X
                                    {"", StepOnErrorWarn, StepOnErrorContinue}] } :
                      n \in 1..MaxSteps } }

\* Run is called on a runner NewRunner made with the logger of the session
\* or with none: without a logger logStep and logTask return at once, as
\* Log does on a logger without a database.
EnterRunTask ==
    /\ pc = "idle" /\ opc = "idle"
    /\ \E t \in RunTasks : runTask(t)
    /\ \E logger \in {"open", "nil"} : db' = logger
    /\ UNCHANGED <<auditLog, logRet, clientVars, opVars, uiVars>>
    /\ UNCHANGED extVars

\* A statement of Run other than its call.
RunStep ==
    \/ StartStep
    \/ EndLoop
    \/ DriverReturn
    \/ LogStep
    \/ ApplyPolicy
    \/ LogTask

NextRun ==
    \/ EnterRunTask
    \/ RunStep
    \/ CtxExpire

\* The session in which main skipped the PostgreSQL resource.
InitRun ==
    SessionStart(SessionConfig,
                 ResolvePrincipal(SessionConfig, StoreUsers, PrincipalSSHUser)[1],
                 {"api"}, {})

\* Run is sequential code and every driver call returns: a statement that
\* can be executed is executed.
SpecRun == InitRun /\ [][NextRun]_vars /\ WF_vars(RunStep)

\* ------------------------------------------------------------------------
\* Tasks with a summary template
\* ------------------------------------------------------------------------

\* summary_template of a task: none, one that renders, one that does not
\* parse and one that fails when executed.
SummaryTemplates == {"", "{{.Success}}", "{{", "{{.Nope}}"}

\* The tasks run here: HTTP steps, unset or warn, under either task policy.
SummaryTasks ==
    { [ID |-> "deploy", OnError |-> p, Steps |-> s, SummaryTemplate |-> tmpl] :
        p \in {"", OnErrorBestEffort},
        s \in UNION { { [i \in 1..n |->
                            TaskStep(i, [Type |-> "http", Resource |-> "api"], sp[i])] :
                          sp \in [1..n -> {"", StepOnErrorWarn}] } :
                      n \in 1..MaxSteps },
        tmpl \in SummaryTemplates }

\* "enter" on a task that has a summary template or none.
EnterSummaryTask ==
    /\ pc = "idle" /\ opc = "idle"
    /\ \E t \in SummaryTasks : runTask(t)
    /\ UNCHANGED <<logVars, clientVars, opVars, uiVars>>
    /\ UNCHANGED extVars

NextSummary ==
    \/ EnterSummaryTask
    \/ StartStep
    \/ EndLoop
    \/ DriverReturn
    \/ LogStep
    \/ ApplyPolicy
    \/ LogTask
    \/ TaskResultMsg

SpecSummary == InitLog /\ [][NextSummary]_vars

\* ------------------------------------------------------------------------
\* internal/openapi: the projector
\* ------------------------------------------------------------------------

\* config.OpenAPIBackend
OpenAPIBackend(docURL, tagFilter, includeUntagged, opIDPrefix) ==
    [DocURL |-> docURL, TagFilter |-> tagFilter, IncludeUntagged |-> includeUntagged,
     OpIDPrefix |-> opIDPrefix]

\* An operation of a path item of the description.  RequestBody is "nil"
\* (no request body), "unresolved" (a reference whose Value is nil),
\* "optional" or "required".
Endpoint(path, method, operationID, tags, requestBody) ==
    [Path |-> path, Method |-> method, OperationID |-> operationID, Tags |-> tags,
     RequestBody |-> requestBody]

\* Mutant: a backend that includes untagged endpoints does so under a tag
\* filter as well.
operationEligible_UntaggedPassFilter(o, backend) ==
    IF backend.TagFilter = {}
    THEN IF backend.IncludeUntagged THEN TRUE ELSE o.Tags # {}
    ELSE \/ \E tag \in o.Tags : tag \in backend.TagFilter
         \/ backend.IncludeUntagged /\ o.Tags = {}

\* operationEligible
operationEligible(o, backend) ==
    IF backend.TagFilter = {}
    THEN IF backend.IncludeUntagged THEN TRUE ELSE o.Tags # {}
    ELSE \E tag \in o.Tags : \E allowed \in backend.TagFilter : tag = allowed

\* hasRequiredRequestBody
hasRequiredRequestBody(o) ==
    IF o.RequestBody \in {"nil", "unresolved"} THEN FALSE
    ELSE o.RequestBody = "required"

\* sanitizePath on the paths of the descriptions.
sanitizePath(path) ==
    CASE path = "/" -> "root"
      [] path = "/users" -> "users"
      [] path = "/users/{id}" -> "users_id"
      [] OTHER -> path

\* strings.ToLower on the methods of the descriptions.
ToLower(method) ==
    CASE method = "GET" -> "get"
      [] method = "POST" -> "post"
      [] OTHER -> method

\* generateForBackend, lines 72-79: the id of the operation of an endpoint.
opIDOf(name, backend, o) ==
    backend.OpIDPrefix \o
        (IF o.OperationID = ""
         THEN ToLower(o.Method) \o "_" \o name \o "_" \o sanitizePath(o.Path)
         ELSE o.OperationID)

\* generateForBackend, lines 81-89: the operation of an endpoint.
projectedOperation(name, backend, o) ==
    [ID |-> opIDOf(name, backend, o), Type |-> "http", Target |-> name,
     Method |-> o.Method, Path |-> o.Path, AllowedRoles |-> {"owner", "admin"}]

\* generateForBackend, lines 58-94: the operations of the endpoints of a
\* description, in the order the maps of paths and methods are ranged over.
generateForBackend(name, backend, endpoints) ==
    LET kept == SelectSeq(endpoints,
                          LAMBDA o : operationEligible(o, backend)
                                     /\ ~hasRequiredRequestBody(o))
    IN  [i \in 1..Len(kept) |-> projectedOperation(name, backend, kept[i])]

\* ------------------------------------------------------------------------
\* cmd/lazyadmin: main, from the start of the process to the session
\* ------------------------------------------------------------------------

\* A nil *config.Config.
NoConfig ==
    [Auth |-> [RequireYubiKey |-> FALSE], Users |-> << >>, Operations |-> << >>,
     Tasks |-> << >>, OpenAPI |-> [Backends |-> {}]]

\* cfg.Users of a configuration that asks for the second factor: alice has
\* registered the credential cred.
KeyedUsers(cred) ==
    << User("alice", {"alice"}, {"admin"}, << cred >>),
       User("carol", {"carol"}, {"viewer"}, << >>) >>

\* The credentials alice may have in the file: the id is canonical ("QQ"),
\* another spelling of the same byte ("QR") or no base64url text ("Q!").
StoredCredentials ==
    { YubiKeyCredential(id, "p256") : id \in {"QQ", "QR", "Q!"} }
    \cup { YubiKeyCredential("QQ", key) : key \in {"p384", "rsa", "junk", "!"} }

\* cfg.Tasks of the documents: the tasks of the session and a task whose
\* step queries the PostgreSQL resource.
StartupTasks ==
    Append(CatalogTasks,
           CatalogTask("report", {"admin", "ops"}, FALSE,
                       [Type |-> "postgres", Resource |-> "db"]))

\* The documents config.Load may find.
Configs ==
    { [Config(FALSE, CatalogUsers, b) EXCEPT !.Tasks = StartupTasks] :
        b \in {{}, {"petstore"}} }
    \cup { [Config(TRUE, KeyedUsers(cred), {"petstore"}) EXCEPT !.Tasks = StartupTasks] :
             cred \in StoredCredentials }

\* The values of SSH_USER the process may start with.
StartupSSHUsers == {"alice", "bob", "mallory"}

\* Generator.generateForBackend: the operation made of the one eligible
\* endpoint of the description of a backend.
GeneratedOperation(name) ==
    Operation("get_" \o name \o "_status", "http", name, {"owner", "admin"})

\* Mutant: a failed second factor is logged and main goes on.
mainAfter_SecondFactorOptional(call, err, next) ==
    IF err # Nil /\ call # "yubikey" THEN "exited" ELSE next

\* main after one of its calls returned err: log.Fatalf ends the process,
\* otherwise the call named next follows.
mainAfter(call, err, next) == IF err # Nil THEN "exited" ELSE next

\* The cause log.Fatalf prints.
Fatalf(call, err) == IF err # Nil THEN call ELSE Nil

\* main, config.Load: the document is read, or the process ends.
Load ==
    /\ mainPc = "load"
    /\ \E c \in Configs \cup {NoConfig} :
          LET err == IF c = NoConfig THEN "read config: no such file" ELSE Nil
          IN  /\ cfg' = c
              /\ mainPc' = mainAfter("load config", err, "openapi")
              /\ exitCause' = Fatalf("load config", err)
    /\ UNCHANGED <<remote, fido>>
    /\ UNCHANGED <<principal, users, creds, mode, filter, viewTasks, list, userList,
                   runs, assertions, recent>>
    /\ UNCHANGED <<logVars, clientVars, runVars, opVars, uiVars>>
    /\ UNCHANGED <<doc, env, regVars>>

\* main, GenerateOperations: the description of every backend is fetched;
\* the operations are appended, or the error is logged and main goes on.
GenerateOperations ==
    /\ mainPc = "openapi"
    /\ IF cfg.OpenAPI.Backends = {}
       THEN UNCHANGED <<cfg, remote>>
       ELSE \E name \in cfg.OpenAPI.Backends, ok \in BOOLEAN :
               /\ remote' = Append(remote, <<"openapi", name>>)
               /\ cfg' = IF ok
                         THEN [cfg EXCEPT !.Operations = Append(@, GeneratedOperation(name))]
                         ELSE cfg
    /\ mainPc' = "logger"
    /\ UNCHANGED <<exitCause, fido>>
    /\ UNCHANGED <<principal, users, creds, mode, filter, viewTasks, list, userList,
                   runs, assertions, recent>>
    /\ UNCHANGED <<logVars, clientVars, runVars, opVars, uiVars>>
    /\ UNCHANGED <<doc, env, regVars>>

\* main, NewAuditLogger: the file is opened and table audit_log created, or
\* the process ends.
NewAuditLogger ==
    /\ mainPc = "logger"
    /\ \E err \in {Nil, "open sqlite: unable to open database file"} :
          /\ db' = IF err = Nil THEN "open" ELSE db
          /\ mainPc' = mainAfter("audit logger", err, "store")
          /\ exitCause' = Fatalf("audit logger", err)
    /\ UNCHANGED <<remote, fido, auditLog, logRet>>
    /\ UNCHANGED <<feVars, recent>>
    /\ UNCHANGED <<clientVars, runVars, opVars, uiVars>>
    /\ UNCHANGED <<doc, env, regVars>>

\* main, users.NewStore: the tables of the store are created and its rows
\* are at hand, or the process ends.
NewStore ==
    /\ mainPc = "store"
    /\ \E err \in {Nil, "create users table: database is locked"} :
          /\ users' = IF err = Nil THEN StoreUsers ELSE users
          /\ mainPc' = mainAfter("user store", err, "resolve")
          /\ exitCause' = Fatalf("user store", err)
    /\ UNCHANGED <<remote, fido>>
    /\ UNCHANGED <<cfg, principal, creds, mode, filter, viewTasks, list, userList,
                   runs, assertions, recent>>
    /\ UNCHANGED <<logVars, clientVars, runVars, opVars, uiVars>>
    /\ UNCHANGED <<doc, env, regVars>>

\* main, auth.ResolvePrincipal.
Resolve ==
    /\ mainPc = "resolve"
    /\ \E sshUser \in StartupSSHUsers :
          LET r == ResolvePrincipal(cfg, users, sshUser)
          IN  /\ principal' = r[1]
              /\ mainPc' = mainAfter("auth", r[2], "yubikey")
              /\ exitCause' = Fatalf("auth", r[2])
    /\ UNCHANGED <<remote, fido>>
    /\ UNCHANGED <<cfg, users, creds, mode, filter, viewTasks, list, userList,
                   runs, assertions, recent>>
    /\ UNCHANGED <<logVars, clientVars, runVars, opVars, uiVars>>
    /\ UNCHANGED <<doc, env, regVars>>

\* main, auth.RequireYubiKeyIfConfigured: whatever build runs and whatever
\* the device answers.
SecondFactor ==
    /\ mainPc = "yubikey"
    /\ \E libfido2 \in BOOLEAN, dev \in DeviceAnswers :
          LET r == RequireYubiKeyIfConfigured(cfg, principal, libfido2, dev)
          IN  /\ fido' = r
              /\ mainPc' = mainAfter("yubikey", r.err, "clients")
              /\ exitCause' = Fatalf("yubikey", r.err)
              /\ assertions' = IF cfg.Auth.RequireYubiKey /\ r.err = Nil
                               THEN Append(assertions, "session")
                               ELSE assertions
    /\ UNCHANGED remote
    /\ UNCHANGED <<cfg, principal, users, creds, mode, filter, viewTasks, list, userList,
                   runs, recent>>
    /\ UNCHANGED <<logVars, clientVars, runVars, opVars, uiVars>>
    /\ UNCHANGED <<doc, env, regVars>>

\* main, from the clients to tea.NewProgram(m).Start(): the HTTP clients
\* are made, the PostgreSQL resource is pinged and skipped if the ping
\* fails, and NewModel makes the model of the session.
StartSession ==
    /\ mainPc = "clients"
    /\ httpClients' = {"api"}
    /\ \E pg \in {{}, {"db"}} : pgClients' = pg
    /\ remote' = Append(remote, <<"postgres", "db">>)
    /\ mode' = modeMain
    /\ filter' = filterAll
    /\ viewTasks' = FALSE
    /\ list' = operationsToItems(cfg, principal, filterAll)
    /\ userList' = << >>
    /\ mainPc' = "session"
    /\ UNCHANGED <<exitCause, fido>>
    /\ UNCHANGED <<cfg, principal, users, creds, runs, assertions, recent>>
    /\ UNCHANGED <<logVars, runVars, opVars, uiVars>>
    /\ UNCHANGED <<doc, env, regVars>>

\* The process before main: nothing is loaded, opened or made.
BeforeMain ==
    /\ httpClients = {}
    /\ pgClients = {}
    /\ db = "nil"
    /\ auditLog = << >>
    /\ logRet = NoReturn
    /\ task = NoTask
    /\ pc = "idle"
    /\ idx = 0
    /\ res = NewTaskResult
    /\ stepPolicy = ""
    /\ sr = NoResult
    /\ ctxDone = FALSE
    /\ cancelledAt = 0
    /\ calls = << >>
    /\ op = NoOp
    /\ opc = "idle"
    /\ opOut = ""
    /\ opErr = Nil
    /\ opCtxDone = FALSE
    /\ lastOp = ""
    /\ lastOutput = ""
    /\ lastError = ""
    /\ lastTask = ""
    /\ lastTaskResult = NewTaskResult
    /\ lastSummary = ""
    /\ recent = NoRecent
    /\ cfg = NoConfig
    /\ principal = NoPrincipal
    /\ users = << >>
    /\ creds = NoCredentials
    /\ mode = ""
    /\ filter = ""
    /\ viewTasks = FALSE
    /\ list = << >>
    /\ userList = << >>
    /\ runs = 0
    /\ assertions = << >>
    /\ mainPc = "load"
    /\ exitCause = Nil
    /\ remote = << >>
    /\ fido = NoFido
    /\ doc = NoDoc
    /\ registeringUser = FALSE
    /\ registerStatus = ""
    /\ reg = NoRegistration

\* The process before main, in an environment nothing is read from.
InitStartup == BeforeMain /\ env = NoEnv

\* Update runs once the program of the session has started: a key of the
\* main view, a step of a command or the delivery of its message.
SessionStep ==
    /\ mainPc = "session"
    /\ \/ KeyEnterTask
       \/ KeyEnterOp
       \/ KeyT
       \/ StartStep
       \/ EndLoop
       \/ DriverReturn
       \/ LogStep
       \/ ApplyPolicy
       \/ LogTask
       \/ DeliverTaskResult
       \/ OpReturn
       \/ OpLog
       \/ DeliverOperationResult

NextStartup ==
    \/ Load
    \/ GenerateOperations
    \/ NewAuditLogger
    \/ NewStore
    \/ Resolve
    \/ SecondFactor
    \/ StartSession
    \/ SessionStep

SpecStartup == InitStartup /\ [][NextStartup]_vars

\* ------------------------------------------------------------------------
\* main with a backend whose description is projected
\* ------------------------------------------------------------------------

\* openapi.backends of the documents: a doc_url that parses or one that
\* url.Parse rejects, a tag filter and include_untagged.
Backends ==
    { OpenAPIBackend(docURL, tagFilter, includeUntagged, "") :
        docURL \in {"https://petstore/openapi.json", "%zz"},
        tagFilter \in SUBSET {"a", "c"},
        includeUntagged \in BOOLEAN }

\* The operations the descriptions hold at GET /users and at POST /.
EndpointsAt(path, method, ids) ==
    { Endpoint(path, method, id, tags, body) :
        id \in ids, tags \in SUBSET {"a", "b"},
        body \in {"nil", "optional", "required"} }

\* The descriptions the loader may return, each as the sequence of its
\* operations in an order the maps may be ranged over.
Descriptions ==
    { << e >> : e \in EndpointsAt("/users", "GET", {"", "listUsers"}) }
    \cup { << e1, e2 >> : e1 \in EndpointsAt("/users", "GET", {""}),
                          e2 \in EndpointsAt("/", "POST", {""}) }
    \cup { << e2, e1 >> : e1 \in EndpointsAt("/users", "GET", {""}),
                          e2 \in EndpointsAt("/", "POST", {""}) }

\* main, config.Load: a document with one backend, petstore.
LoadBackend ==
    /\ mainPc = "load"
    /\ \E b \in Backends :
          cfg' = [Config(FALSE, CatalogUsers, {"petstore"})
                    EXCEPT !.OpenAPI = [Backends |-> {"petstore"}, petstore |-> b]]
    /\ mainPc' = "openapi"
    /\ UNCHANGED <<exitCause, remote, fido, doc, env, regVars>>
    /\ UNCHANGED <<principal, users, creds, mode, filter, viewTasks, list, userList,
                   runs, assertions, recent>>
    /\ UNCHANGED <<logVars, clientVars, runVars, opVars, uiVars>>

\* What GenerateOperations comes to: mustParseURL panics on a doc_url that
\* does not parse; the loader fails to fetch the description, or returns
\* one that is not valid, or one that is.
ProjectorOutcomes(backend) ==
    IF backend.DocURL = "%zz"
    THEN { [kind |-> "panic", endpoints |-> << >>] }
    ELSE { [kind |-> "unreachable", endpoints |-> << >>],
           [kind |-> "invalid", endpoints |-> << >>] }
         \cup { [kind |-> "loaded", endpoints |-> d] : d \in Descriptions }

\* main, lines 31-40: GenerateOperations projects the description of the
\* backend; its operations are appended, or its error is logged and main
\* goes on.  A panic ends the process.
ProjectOperations ==
    /\ mainPc = "openapi"
    /\ \E d \in ProjectorOutcomes(cfg.OpenAPI.petstore) :
          /\ doc' = d
          /\ remote' = IF d.kind = "panic" THEN remote
                       ELSE Append(remote, <<"openapi", "petstore">>)
          /\ cfg' = IF d.kind = "loaded"
                    THEN [cfg EXCEPT !.Operations =
                            @ \o generateForBackend("petstore", cfg.OpenAPI.petstore,
                                                    d.endpoints)]
                    ELSE cfg
          /\ mainPc' = IF d.kind = "panic" THEN "exited" ELSE "logger"
          /\ exitCause' = IF d.kind = "panic" THEN "panic: invalid URL" ELSE Nil
    /\ UNCHANGED <<fido, env, regVars>>
    /\ UNCHANGED <<principal, users, creds, mode, filter, viewTasks, list, userList,
                   runs, assertions, recent>>
    /\ UNCHANGED <<logVars, clientVars, runVars, opVars, uiVars>>

NextProjector ==
    \/ LoadBackend
    \/ ProjectOperations
    \/ NewAuditLogger
    \/ NewStore
    \/ Resolve
    \/ SecondFactor
    \/ StartSession

SpecProjector == InitStartup /\ [][NextProjector]_vars

\* ------------------------------------------------------------------------
\* main on the documents config.Load accepts
\* ------------------------------------------------------------------------

\* The resources of the documents, by kind: the HTTP resource api and the
\* PostgreSQL resource db.
DeclaredResources == [http |-> {"api"}, postgres |-> {"db"}]

\* A document that keeps every rule of the catalog.
ValidDocument ==
    [Auth |-> [RequireYubiKey |-> FALSE],
     Users |-> CatalogUsers,
     Operations |-> << Operation("op_http", "http", "api", {"admin"}),
                       Operation("op_pg", "postgres", "db", {"admin", "viewer"}) >>,
     Tasks |-> << CatalogTask("deploy", {"admin"}, FALSE,
                              [Type |-> "http", Resource |-> "api"]) >>,
     OpenAPI |-> [Backends |-> {}]]

\* Documents yaml.Unmarshal parses as well: each breaks a rule of the
\* catalog.
UnknownRoleDocument ==
    [ValidDocument EXCEPT !.Operations =
        Append(@, Operation("op_ghost", "http", "api", {"admin", "ghost"}))]

UndeclaredTargetDocument ==
    [ValidDocument EXCEPT
        !.Operations = Append(@, Operation("op_lost", "http", "nowhere", {"admin"})),
        !.Tasks = Append(@, CatalogTask("lost", {"admin"}, FALSE,
                                        [Type |-> "postgres", Resource |-> "nowhere"]))]

NoSSHUsersDocument ==
    [ValidDocument EXCEPT !.Users = Append(@, User("dave", {}, {"admin"}, << >>))]

NoRolesDocument ==
    [ValidDocument EXCEPT !.Users = Append(@, User("bob", {"bob"}, {}, << >>))]

NoStepsDocument ==
    [ValidDocument EXCEPT
        !.Tasks = Append(@, [CatalogTask("empty", {"admin"}, FALSE,
                                         [Type |-> "sleep", Resource |-> ""])
                               EXCEPT !.Steps = << >>])]

SameOperationIDDocument ==
    [ValidDocument EXCEPT
        !.Operations = Append(@, Operation("op_http", "postgres", "db", {"admin"}))]

SameProjectedIDDocument ==
    [ValidDocument EXCEPT
        !.Operations = Append(@, Operation("get_petstore_status", "http", "api",
                                           {"admin"})),
        !.OpenAPI = [Backends |-> {"petstore"}]]

SameTaskIDDocument ==
    [ValidDocument EXCEPT
        !.Tasks = Append(@, CatalogTask("deploy", {"admin"}, FALSE,
                                        [Type |-> "sleep", Resource |-> ""]))]

SameStepIDDocument ==
    [ValidDocument EXCEPT
        !.Tasks = Append(@, [CatalogTask("twice", {"admin"}, FALSE,
                                         [Type |-> "http", Resource |-> "api"])
                               EXCEPT !.Steps =
                                   << TaskStep(1, [Type |-> "http", Resource |-> "api"],
                                               StepOnErrorContinue),
                                      TaskStep(1, [Type |-> "sleep", Resource |-> ""],
                                               "") >>])]

\* The documents the file may hold.
Documents ==
    {ValidDocument, UnknownRoleDocument, UndeclaredTargetDocument, NoSSHUsersDocument,
     NoRolesDocument, NoStepsDocument, SameOperationIDDocument,
     SameProjectedIDDocument, SameTaskIDDocument, SameStepIDDocument}

\* config.Load: the file is read and unmarshalled; the errors are those of
\* os.ReadFile and yaml.Unmarshal.
LoadDocument ==
    /\ mainPc = "load"
    /\ \E c \in Documents \cup {NoConfig} :
          LET err == IF c = NoConfig THEN "read config: no such file" ELSE Nil
          IN  /\ cfg' = c
              /\ mainPc' = mainAfter("load config", err, "openapi")
              /\ exitCause' = Fatalf("load config", err)
    /\ UNCHANGED <<remote, fido, doc, env, regVars>>
    /\ UNCHANGED <<principal, users, creds, mode, filter, viewTasks, list, userList,
                   runs, assertions, recent>>
    /\ UNCHANGED <<logVars, clientVars, runVars, opVars, uiVars>>

NextCatalog ==
    \/ LoadDocument
    \/ GenerateOperations
    \/ NewAuditLogger
    \/ NewStore
    \/ Resolve
    \/ SecondFactor
    \/ StartSession
    \/ SessionStep

SpecCatalog == InitStartup /\ [][NextCatalog]_vars

\* ------------------------------------------------------------------------
\* main in the environments of the process
\* ------------------------------------------------------------------------

\* The environments main may start in.
Environments ==
    { Environment(sshUserVar, userVar, current) :
        sshUserVar \in {"", "alice", "bob", "Alice"},
        userVar \in {"", "alice", "carol", "mallory"},
        current \in {<<"bob", Nil>>, <<"", Nil>>,
                     <<"", "user: Current not implemented">>} }

\* cfg.Users of the documents: ssh names that two users of the file have,
\* in either order, one that a user of the store has (bob), and unknown.
IdentityUsers ==
    { CatalogUsers,
      << User("alice", {"alice"}, {"admin"}, << >>),
         User("shadow", {"alice", "bob"}, {"viewer"}, << >>),
         User("guest", {"unknown"}, {"viewer"}, << >>) >>,
      << User("shadow", {"carol", "alice"}, {"viewer"}, << >>),
         User("alice", {"alice"}, {"admin"}, << >>) >> }

\* config.Load: a document with these users.
LoadUsers ==
    /\ mainPc = "load"
    /\ \E u \in IdentityUsers : cfg' = Config(FALSE, u, {})
    /\ mainPc' = "openapi"
    /\ UNCHANGED <<exitCause, remote, fido, doc, env, regVars>>
    /\ UNCHANGED <<principal, users, creds, mode, filter, viewTasks, list, userList,
                   runs, assertions, recent>>
    /\ UNCHANGED <<logVars, clientVars, runVars, opVars, uiVars>>

\* main, auth.ResolvePrincipal: sshUser is what CurrentSSHUser reads from
\* the environment.
ResolveAmbient ==
    /\ mainPc = "resolve"
    /\ LET sshUser == CurrentSSHUser(env)
           r == ResolvePrincipal(cfg, users, sshUser)
       IN  /\ env' = [env EXCEPT !.sshUser = sshUser]
           /\ principal' = r[1]
           /\ mainPc' = mainAfter("auth", r[2], "yubikey")
           /\ exitCause' = Fatalf("auth", r[2])
    /\ UNCHANGED <<remote, fido, doc, regVars>>
    /\ UNCHANGED <<cfg, users, creds, mode, filter, viewTasks, list, userList,
                   runs, assertions, recent>>
    /\ UNCHANGED <<logVars, clientVars, runVars, opVars, uiVars>>

InitIdentity == BeforeMain /\ env \in Environments

NextIdentity ==
    \/ LoadUsers
    \/ GenerateOperations
    \/ NewAuditLogger
    \/ NewStore
    \/ ResolveAmbient
    \/ SecondFactor
    \/ StartSession

SpecIdentity == InitIdentity /\ [][NextIdentity]_vars

\* ------------------------------------------------------------------------
\* Properties of Runner.Run
\* ------------------------------------------------------------------------

\* The step at index k has started: its id is in StepOrder.
Started(k) == k <= Len(res.StepOrder)

\* The step at index k has run and its result is stored in Steps.
Recorded(k) == Started(k) /\ task.Steps[k].ID \in DOMAIN res.Steps

\* The step at index k has run and failed.
FailedStep(k) == Recorded(k) /\ res.Steps[task.Steps[k].ID].Err # Nil

\* The step at index k declares no policy of its own.
Inherits(k) == task.Steps[k].OnError \in {"", StepOnErrorInherit}

\* No step after index k has started or has a result.
NoneAfter(k) ==
    /\ Len(res.StepOrder) <= k
    /\ \A j \in (k + 1)..Len(task.Steps) : task.Steps[j].ID \notin DOMAIN res.Steps

\* Run has returned its TaskResult.
RunReturned == pc \in {"returned", "shown"}

\* C1: under task policy fail_fast (or unset), once the step at index k has
\* failed with declared policy inherit or unset, no step with a greater
\* index is started: none is in StepOrder or in Steps.
C1_FailFastInheritStops ==
    task.OnError \in {"", OnErrorFailFast} =>
        \A k \in 1..Len(task.Steps) : (FailedStep(k) /\ Inherits(k)) => NoneAfter(k)

\* A fail_fast task of two steps returned after its first, inheriting, step
\* failed.
C1_Witness ==
    /\ RunReturned
    /\ task.OnError = OnErrorFailFast
    /\ Len(task.Steps) = 2
    /\ FailedStep(1) /\ Inherits(1)
    /\ res.StepOrder = <<"s1">>

\* C2: under every task policy, once a step whose declared policy is fail
\* has failed, no later step is started, and Success is false when Run
\* returns.
C2_StepFailOverrides ==
    \A k \in 1..Len(task.Steps) :
        (FailedStep(k) /\ task.Steps[k].OnError = StepOnErrorFail) =>
            /\ NoneAfter(k)
            /\ RunReturned => ~res.Success

\* A best_effort task of two steps returned after its first step, declared
\* fail, failed.
C2_Witness ==
    /\ RunReturned
    /\ task.OnError = OnErrorBestEffort
    /\ Len(task.Steps) = 2
    /\ FailedStep(1) /\ task.Steps[1].OnError = StepOnErrorFail
    /\ ~res.Success

\* C3: once Run has handled the failure of a step whose declared policy is
\* warn, Success is false and stays false until Run returns, and when Run
\* returns the step after it, if any, was started.
C3_WarnMarksFailedAndGoesOn ==
    \A k \in 1..Len(task.Steps) :
        (FailedStep(k) /\ task.Steps[k].OnError = StepOnErrorWarn) =>
            /\ (k < idx \/ RunReturned) => ~res.Success
            /\ (RunReturned /\ k < Len(task.Steps)) => Started(k + 1)

\* A run returned whose first step, declared warn, failed and whose second
\* step succeeded.
C3_Witness ==
    /\ RunReturned
    /\ Len(task.Steps) = 2
    /\ FailedStep(1) /\ task.Steps[1].OnError = StepOnErrorWarn
    /\ Recorded(2) /\ ~FailedStep(2)
    /\ ~res.Success

\* C4: when Run returns for a best_effort task all of whose steps declare
\* inherit or nothing, every declared step has a result in Steps and
\* Success is true.
C4_BestEffortRunsAll ==
    ( /\ RunReturned
      /\ task.OnError = OnErrorBestEffort
      /\ \A k \in 1..Len(task.Steps) : Inherits(k) ) =>
        /\ \A k \in 1..Len(task.Steps) : Recorded(k)
        /\ res.Success

\* A best_effort task of two inheriting steps returned after both failed.
C4_Witness ==
    /\ RunReturned
    /\ task.OnError = OnErrorBestEffort
    /\ Len(task.Steps) = 2
    /\ Inherits(1) /\ Inherits(2)
    /\ FailedStep(1) /\ FailedStep(2)

\* The reference table of the effective step policy.
ReferencePolicy(taskPolicy, declared) ==
    CASE declared = StepOnErrorFail -> StepOnErrorFail
      [] declared = StepOnErrorWarn -> StepOnErrorWarn
      [] declared = StepOnErrorContinue -> StepOnErrorContinue
      [] declared \in {"", StepOnErrorInherit} /\ taskPolicy = OnErrorBestEffort ->
            StepOnErrorContinue
      [] declared \in {"", StepOnErrorInherit} /\ taskPolicy \in {"", OnErrorFailFast} ->
            StepOnErrorFail

\* C5: the policy Run computes for the step it is running equals the
\* reference table, for every task policy (fail_fast, best_effort, unset)
\* and every declared step policy (unset, inherit, fail, warn, continue).
C5_EffectivePolicyTable ==
    pc \in {"driver", "logStep", "decide"} =>
        stepPolicy = ReferencePolicy(task.OnError, task.Steps[idx].OnError)

\* Run has resolved the unset policy of a step of a task whose policy is
\* unset.
C5_Witness ==
    /\ pc = "decide"
    /\ task.OnError = ""
    /\ task.Steps[idx].OnError = ""
    /\ stepPolicy = StepOnErrorFail

\* Run has applied the policy to the result of the step at index k.
Decided(k) == Recorded(k) /\ (k < idx \/ pc \in {"logTask", "returned", "shown"})

\* C6: Success is false exactly when a step whose result Run has handled
\* failed under an effective policy of fail or warn; so it is when Run
\* returns, and neither a successful step nor a failure under continue
\* changes it.
C6_SuccessDefinition ==
    pc # "idle" =>
        ( ~res.Success <=>
            \E k \in 1..Len(task.Steps) :
                /\ Decided(k)
                /\ FailedStep(k)
                /\ ReferencePolicy(task.OnError, task.Steps[k].OnError)
                      \in {StepOnErrorFail, StepOnErrorWarn} )

\* A run returned with Success true although its first step failed (under
\* continue) and its second step succeeded.
C6_Witness ==
    /\ RunReturned
    /\ Len(task.Steps) = 2
    /\ FailedStep(1) /\ task.Steps[1].OnError = StepOnErrorContinue
    /\ Recorded(2) /\ ~FailedStep(2)
    /\ res.Success

\* The driver calls of a run are invoke/return pairs of one step each, and
\* the steps of successive pairs have increasing indexes.
CallsInOrder ==
    /\ \A j \in 1..Len(calls) :
          IF j % 2 = 1
          THEN /\ calls[j][1] = "invoke"
               /\ j > 2 => calls[j - 2][2] < calls[j][2]
          ELSE /\ calls[j][1] = "return"
               /\ calls[j][2] = calls[j - 1][2]
    /\ (Len(calls) % 2 = 1) <=> (pc = "driver")

\* C7: StepOrder is always a prefix of the declared step ids; a driver is
\* invoked only after the driver of the step before has returned, in
\* declaration order; and when Run returns Steps holds a result for exactly
\* the ids in StepOrder.
C7_StepsInOrder ==
    /\ Len(res.StepOrder) <= Len(task.Steps)
    /\ \A i \in 1..Len(res.StepOrder) : res.StepOrder[i] = task.Steps[i].ID
    /\ CallsInOrder
    /\ RunReturned =>
          DOMAIN res.Steps = { res.StepOrder[i] : i \in 1..Len(res.StepOrder) }

\* A run returned after the drivers of two steps were called, the first of
\* which failed.
C7_Witness ==
    /\ RunReturned
    /\ res.StepOrder = <<"s1", "s2">>
    /\ Len(calls) = 4
    /\ FailedStep(1)

\* The number of steps of the run whose record logStep has written.
StepsLogged ==
    IF pc \in {"driver", "logStep"} THEN Len(res.StepOrder) - 1 ELSE Len(res.StepOrder)

OpReturned == opc \in {"returned", "shown"}

\* C9: every execution of an operation appends exactly one audit record,
\* whatever the outcome of the call: success, transport error, missing
\* client, unsupported type, or expiry of the context of the operation.
C9_OneRecordPerOperation ==
    OpReturned => /\ Len(auditLog) = 1
                  /\ auditLog[1].operation_id = op.ID

\* C10: every audit record reflects its unit.  The record of an operation
\* carries the id of the operation and success = (no error); the record of
\* a step carries success = (the step returned no error); the record of a
\* task carries Success of the run; and error is non-empty only on records
\* whose success is 0.
C10_RecordsTruthful ==
    /\ \A i \in 1..Len(auditLog) : auditLog[i].error # "" => auditLog[i].success = 0
    /\ (OpReturned /\ Len(auditLog) > 0) =>
          /\ auditLog[1].operation_id = op.ID
          /\ (auditLog[1].success = 1) <=> (opErr = Nil)
          /\ opErr # Nil => auditLog[1].error = opErr
    /\ pc # "idle" =>
          /\ \A i \in 1..StepsLogged :
                /\ i <= Len(auditLog)
                /\ (auditLog[i].success = 1) <=> (res.Steps[res.StepOrder[i]].Err = Nil)
                /\ ~(auditLog[i].success = 1) => auditLog[i].error = res.Steps[res.StepOrder[i]].Err
          /\ RunReturned =>
                /\ Len(auditLog) > 0
                /\ (auditLog[Len(auditLog)].success = 1) <=> res.Success
                /\ auditLog[Len(auditLog)].error = ""

\* A run returned with Success false after a failed step: the step record
\* and the task record both carry success 0, the step record its error.
C10_Witness ==
    /\ RunReturned
    /\ ~res.Success
    /\ Len(auditLog) = 2
    /\ auditLog[1].success = 0 /\ auditLog[1].error # ""
    /\ auditLog[2].success = 0 /\ auditLog[2].error = ""

\* C20: once the context of a task has become done while the step at index
\* cancelledAt was active, no step with a greater index is started, whatever
\* the task policy and the step policies: StepOrder never grows past the
\* step that was active.
C20_NoStepAfterCancellation ==
    cancelledAt > 0 => Len(res.StepOrder) <= cancelledAt

\* ------------------------------------------------------------------------
\* Properties of executions whose audit appends can fail
\* ------------------------------------------------------------------------

\* What Run returns is what the outcomes of its steps alone determine: a
\* step has started exactly when no step before it failed under fail, every
\* started step has its result, and Success is true exactly when no step
\* failed under fail or warn.
OutcomeOfStepsAlone ==
    RunReturned =>
        /\ \A k \in 1..Len(task.Steps) :
              Started(k) <=>
                  \A j \in 1..(k - 1) :
                      ~( /\ FailedStep(j)
                         /\ ReferencePolicy(task.OnError, task.Steps[j].OnError)
                               = StepOnErrorFail )
        /\ \A k \in 1..Len(res.StepOrder) : Recorded(k)
        /\ res.Success <=>
              \A k \in 1..Len(res.StepOrder) :
                  ~( /\ FailedStep(k)
                     /\ ReferencePolicy(task.OnError, task.Steps[k].OnError)
                           \in {StepOnErrorFail, StepOnErrorWarn} )

\* The append of a command leaves its outcome as it was and the command goes
\* on to what follows the append.
AppendKeepsOutcome ==
    /\ opc = "log" => opOut' = opOut /\ opErr' = opErr
    /\ pc = "logStep" => res' = res /\ sr' = sr /\ pc' \in {"logStep", "decide"}
    /\ pc = "logTask" => res' = res /\ pc' \in {"logTask", "returned"}

\* C19: a failed audit append never masks or alters the outcome of an
\* execution.  The output and error of an operation are what they were
\* before the append; the TaskResult of Run (Success, StepOrder, Steps) is
\* what the outcomes of the steps alone determine, whether the appends of
\* the run succeeded or failed; and after a failed append of a step the run
\* goes on to apply the policy of that step.
C19_AuditFailureKeepsOutcome ==
    []OutcomeOfStepsAlone /\ [][AppendKeepsOutcome]_vars

\* A run of two steps returned with both results although the log was
\* closed before its first append: no record was written.
C19_Witness ==
    /\ RunReturned
    /\ db = "closed"
    /\ auditLog = << >>
    /\ Len(res.StepOrder) = 2
    /\ Recorded(1) /\ Recorded(2)

\* ------------------------------------------------------------------------
\* Properties of the audit log
\* ------------------------------------------------------------------------

\* The sequence numbers of the rows the last ReadRecent call returned.
RecentSeqs == { recent.rows[i].Seq : i \in 1..Len(recent.rows) }

\* C16: a ReadRecent(N) call, N >= 0, that succeeds on a log of count
\* records returns min(N, count) rows; their sequence numbers are strictly
\* decreasing and are the highest of the log; each row carries the fields
\* of the record with its sequence number; and no row is returned for N = 0
\* or an empty log.
C16_ReadRecentNewestFirst ==
    recent.err = Nil =>
        /\ Len(recent.rows) =
              (IF recent.limit < recent.count THEN recent.limit ELSE recent.count)
        /\ \A i, j \in 1..Len(recent.rows) :
              i < j => recent.rows[i].Seq > recent.rows[j].Seq
        /\ \A k \in 1..recent.count :
              k \notin RecentSeqs => \A q \in RecentSeqs : k < q
        /\ \A i \in 1..Len(recent.rows) :
              LET q == recent.rows[i].Seq
              IN  /\ q \in 1..recent.count
                  /\ auditLog[q].id = q
                  /\ recent.rows[i].OperationID = auditLog[q].operation_id
                  /\ recent.rows[i].Success = (auditLog[q].success = 1)
                  /\ recent.rows[i].Error = auditLog[q].error
        /\ (recent.limit = 0 \/ recent.count = 0) => recent.rows = << >>

\* ReadRecent(2) on a log of three records returned the records 3 and 2, in
\* that order, the newest of them a failure.
C16_Witness ==
    /\ recent.err = Nil
    /\ recent.limit = 2
    /\ recent.count = 3
    /\ Len(recent.rows) = 2
    /\ recent.rows[1].Seq = 3 /\ ~recent.rows[1].Success
    /\ recent.rows[2].Seq = 2

\* ------------------------------------------------------------------------
\* Properties of the front-end
\* ------------------------------------------------------------------------

\* The roles of a principal.
RolesOf(p) == p.ConfigUser.Roles \cup p.DBUser.Roles

\* The principal may use an item: their roles and its allowed_roles have a
\* role in common.
Allowed(p, item) == RolesOf(p) \cap item.AllowedRoles # {}

\* The operation ids of the audit records of the executions of the items the
\* principal may use.
AllowedRecordIDs ==
    { cfg.Operations[i].ID :
        i \in { j \in DOMAIN cfg.Operations : Allowed(principal, cfg.Operations[j]) } }
    \cup UNION { {"task:" \o cfg.Tasks[i].ID} \cup
                   { "task:" \o cfg.Tasks[i].ID \o " step:" \o cfg.Tasks[i].Steps[k].ID :
                       k \in DOMAIN cfg.Tasks[i].Steps } :
                 i \in { j \in DOMAIN cfg.Tasks : Allowed(principal, cfg.Tasks[j]) } }

\* C11: through every sequence of key presses, view toggles, filter
\* changes, visits to logs, help and users, and arrivals of result
\* messages, the operation or task of a command that has started is one
\* whose allowed_roles share a role with the roles of the principal of the
\* session, and so is the item of every audit record written.
C11_ExecutedOnlyIfAllowed ==
    /\ opc # "idle" => Allowed(principal, op)
    /\ pc # "idle" => Allowed(principal, task)
    /\ \A i \in 1..Len(auditLog) : auditLog[i].operation_id \in AllowedRecordIDs

\* The admin has gone to the users view, whose rows replaced the items of
\* the list, while the task they started is running its step.
C11_Witness ==
    /\ mode = modeUsers
    /\ Len(list) > 0 /\ list[1].kind = "user"
    /\ pc = "driver"
    /\ task.ID = "deploy"
    /\ "admin" \in RolesOf(principal)

\* The item is among the items.
InItems(item, items) == \E j \in DOMAIN items : items[j] = item

\* C12: an operation of the catalog is in the list operationsToItems builds
\* for the principal under the filter All exactly when the roles of the
\* principal and the allowed_roles of the operation have a role in common,
\* and so for the tasks and tasksToItems; an item whose allowed_roles is
\* empty is in neither list; and the list the model shows in the operations
\* view under the filter All, when it holds operations, is that list.
C12_VisibleIffRolesIntersect ==
    LET ops == operationsToItems(cfg, principal, filterAll)
        tsks == tasksToItems(cfg, principal)
    IN  /\ \A i \in DOMAIN cfg.Operations :
              /\ InItems(operationItem(cfg.Operations[i]), ops)
                    <=> Allowed(principal, cfg.Operations[i])
              /\ cfg.Operations[i].AllowedRoles = {}
                    => ~InItems(operationItem(cfg.Operations[i]), ops)
        /\ \A i \in DOMAIN cfg.Tasks :
              /\ InItems(taskItem(cfg.Tasks[i]), tsks)
                    <=> Allowed(principal, cfg.Tasks[i])
              /\ cfg.Tasks[i].AllowedRoles = {}
                    => ~InItems(taskItem(cfg.Tasks[i]), tsks)
        /\ ( /\ mode = modeMain /\ ~viewTasks /\ filter = filterAll
             /\ \A j \in DOMAIN list : list[j].kind = "operation" )
              => list = ops

\* The principal, of role ops alone, is back in the operations view under
\* the filter All: the list holds op_http alone, neither the operation of
\* the admin nor the operation that allows no role.
C12_Witness ==
    /\ RolesOf(principal) = {"ops"}
    /\ mode = modeMain /\ ~viewTasks /\ filter = filterAll
    /\ runs = 1
    /\ Len(list) = 1
    /\ list[1] = operationItem(CatalogOperations[1])

\* The task of the run has had a hardware-token verification made for it.
VerifiedForTask == \E i \in 1..Len(assertions) : assertions[i] = "task:" \o task.ID

\* C13: a step of a task whose require_yubikey is set is started only after
\* a successful hardware-token verification made for that run of the task.
C13_TaskSecondFactor ==
    (pc # "idle" /\ task.RequireYubiKey /\ res.StepOrder # << >>) => VerifiedForTask

\* ------------------------------------------------------------------------
\* Properties of concurrent appends
\* ------------------------------------------------------------------------

\* The ids of the records increase along the log: each is unique and
\* greater than that of every record appended before it.
IdsIncrease ==
    \A i, j \in 1..Len(auditLog) : i < j => auditLog[i].id < auditLog[j].id

\* The log after the step is the log before it and one record more, for
\* the given entry.
AppendsOne(entry) ==
    /\ Len(auditLog') = Len(auditLog) + 1
    /\ SubSeq(auditLog', 1, Len(auditLog)) = auditLog
    /\ auditLog'[Len(auditLog')].operation_id = entry.OperationID
    /\ auditLog'[Len(auditLog')].success = boolToInt(entry.Success)

\* Every append of a command that succeeds adds the record of that command
\* and no other change to the log.
EveryAppendCounts ==
    /\ (pc = "logStep" /\ pc' = "decide") => AppendsOne(StepEntry(task.ID, sr))
    /\ (pc = "logTask" /\ pc' = "returned") =>
          AppendsOne(TaskEntry(task.ID, res.Success))
    /\ (opc = "log" /\ opc' = "returned" /\ ~opCtxDone) =>
          AppendsOne(OpEntry(op, opErr))

LogExtended ==
    /\ Len(auditLog') >= Len(auditLog)
    /\ SubSeq(auditLog', 1, Len(auditLog)) = auditLog

SessionOnlyAfterStartup ==
    mainPc = "session" =>
        /\ cfg # NoConfig
        /\ db = "open"
        /\ principal # NoPrincipal
        /\ cfg.Auth.RequireYubiKey =>
              /\ fido.err = Nil
              /\ fido.verified = 1
              /\ assertions = << "session" >>

\* No command was started, no driver called and no record appended.
NothingRan ==
    /\ runs = 0
    /\ op = NoOp /\ opc = "idle"
    /\ task = NoTask /\ pc = "idle"
    /\ calls = << >>
    /\ auditLog = << >>

\* Commands run in the session alone.
RunsOnlyInSession == mainPc # "session" => NothingRan /\ mode = ""

\* A call of main that failed has ended the process.
FailureExits == (exitCause # Nil \/ fido.err # Nil) <=> mainPc = "exited"

\* C14 as stated: the session starts only after configuration load,
\* audit-store initialisation, identity resolution and a required second
\* factor have succeeded, and a failure of any of them ends the process
\* before the session starts and before any remote call or audit append.
C14_NoRemoteCallBeforeFailure ==
    /\ SessionOnlyAfterStartup
    /\ RunsOnlyInSession
    /\ FailureExits
    /\ mainPc = "exited" => remote = << >>

\* C14: the session starts, and so an operation or a task can run, only
\* after configuration load, audit-store and user-store initialisation,
\* identity resolution and a required second factor have succeeded; a
\* failure of any of them ends the process before the session starts and
\* before any command, driver call or audit append.  The remote calls made
\* before such a failure are the fetches of the OpenAPI descriptions alone.
C14_SessionAfterStartup ==
    /\ SessionOnlyAfterStartup
    /\ RunsOnlyInSession
    /\ FailureExits
    /\ mainPc = "exited" =>
          \A i \in DOMAIN remote : remote[i][1] = "openapi"

\* The second factor failed on a forged signature after the description of
\* a backend had been fetched, and the process has ended.
C14_Witness ==
    /\ mainPc = "exited"
    /\ exitCause = "yubikey"
    /\ fido.err = "verify signature: " \o ErrAssertionFailed
    /\ remote = << <<"openapi", "petstore">> >>
    /\ NothingRan

\* The device returned an assertion whose credential id is not the text
\* stored for the credential that was asked for.
CredentialMismatch ==
    /\ fido.assertion # NoAssertion
    /\ fido.assertion.CredentialID # principal.ConfigUser.YubiKeyCreds[1].CredentialID

\* C15: when the device returns an assertion whose credential id differs
\* from the stored one, verification fails with the credential-mismatch
\* error and verifyFIDO2Signature is not called, also when the signature
\* would verify under the stored key.
C15_MismatchBeforeSignature ==
    CredentialMismatch =>
        /\ fido.err = ErrNoMatchingCredID
        /\ fido.verified = 0
        /\ mainPc = "exited"

\* The assertion is for another credential and carries a signature the
\* stored P-256 key accepts.
C15_Witness ==
    /\ CredentialMismatch
    /\ fido.assertion.Signature = "valid"
    /\ principal.ConfigUser.YubiKeyCreds[1].PublicKey = "p256"
    /\ fido.err = ErrNoMatchingCredID

\* ------------------------------------------------------------------------
\* Resources without a client
\* ------------------------------------------------------------------------

\* The session holds no client for the resource of that type and name.
NoClient(type, name) ==
    \/ type = "http" /\ name \notin httpClients
    \/ type = "postgres" /\ name \notin pgClients

\* The operation in flight targets a resource without a client.
OpWithoutClient == op # NoOp /\ NoClient(op.Type, op.Target)

\* The step whose result Run holds targets a resource without a client.
StepWithoutClient ==
    /\ pc \in {"logStep", "decide"}
    /\ NoClient(task.Steps[idx].Type, task.Steps[idx].Resource)

\* The log holds a record of a failure with that operation id and error.
FailureRecorded(operationID, error) ==
    \E i \in DOMAIN auditLog :
        /\ auditLog[i].operation_id = operationID
        /\ auditLog[i].success = 0
        /\ auditLog[i].error = error

\* The client of the operation is never called, the item is loaded, and the
\* failure, whose error is text, is audited.
OpWithoutClientFails(text) ==
    OpWithoutClient =>
        /\ opc \in {"log", "returned"}
        /\ opErr = text
        /\ InItems(operationItem(op), operationsToItems(cfg, principal, filterAll))
        /\ opc = "returned" => FailureRecorded(op.ID, text)

\* The driver of the step is never called, the task is loaded, and the
\* failure, whose error is text, is audited.
StepWithoutClientFails(text) ==
    StepWithoutClient =>
        /\ sr.Err = text
        /\ \A i \in DOMAIN calls : calls[i] # <<"invoke", idx>>
        /\ InItems(taskItem(task), tasksToItems(cfg, principal))
        /\ pc = "decide" =>
              FailureRecorded("task:" \o task.ID \o " step:" \o task.Steps[idx].ID, text)

OneCallPerStep ==
    /\ \A i, j \in DOMAIN calls : calls[i] = calls[j] => i = j
    /\ \A i \in DOMAIN calls : calls[i][2] \in 1..Len(task.Steps)

\* runStep has no driver to call for the step at index k: its type is not
\* supported or its resource has no client.
DispatchFailure(k) ==
    \/ task.Steps[k].Type \notin {"http", "postgres", "sleep"}
    \/ NoClient(task.Steps[k].Type, task.Steps[k].Resource)

\* The step at index k, which runStep could not dispatch, has a failed
\* StepResult, no driver call, and was handled under its effective policy.
DispatchFailureHandled(k) ==
    LET policy == EffectivePolicy(task, task.Steps[k])
    IN  /\ FailedStep(k)
        /\ ~res.Steps[task.Steps[k].ID].OK
        /\ \A i \in DOMAIN calls : calls[i][2] # k
        /\ Decided(k) =>
              /\ policy \in {StepOnErrorFail, StepOnErrorWarn} => ~res.Success
              /\ policy = StepOnErrorFail => NoneAfter(k)
              /\ (policy # StepOnErrorFail /\ RunReturned /\ k < Len(task.Steps))
                    => Started(k + 1)

\* The TaskResult Run returns: StepOrder is a prefix of the declared steps
\* and Steps holds the result of each step in it.
ReturnsTaskResult ==
    RunReturned =>
        /\ Len(res.StepOrder) \in 1..Len(task.Steps)
        /\ \A k \in 1..Len(res.StepOrder) : res.StepOrder[k] = task.Steps[k].ID
        /\ DOMAIN res.Steps = { res.StepOrder[k] : k \in 1..Len(res.StepOrder) }

\* C22: Run always terminates and returns a TaskResult, every driver call
\* returning: it calls the driver at most once per declared step, never
\* again, and a step of unsupported type or whose resource has no client
\* yields a failed StepResult handled under the effective policy; so it is
\* for a runner without audit logger.
C22_RunTerminates ==
    /\ [](OneCallPerStep /\ ReturnsTaskResult)
    /\ [](\A k \in 1..Len(task.Steps) :
            (Recorded(k) /\ DispatchFailure(k)) => DispatchFailureHandled(k))
    /\ (pc = "loop") ~> (pc = "returned")

\* A runner without logger has returned from a best_effort task whose first
\* step is of a type without a driver and whose second step was called.
C22_Witness ==
    /\ pc = "returned"
    /\ db = "nil" /\ auditLog = << >>
    /\ task.OnError = OnErrorBestEffort
    /\ Len(task.Steps) = 2
    /\ task.Steps[1].Type = "redis" /\ FailedStep(1)
    /\ calls = << <<"invoke", 2>>, <<"return", 2>> >>

\* ------------------------------------------------------------------------
\* The summary of a task
\* ------------------------------------------------------------------------

\* The step in which runTask renders the summary and its message reaches
\* the model.
Rendering == pc = "returned" /\ pc' = "shown"

\* The step renders after the record of the task was written, changes
\* neither the TaskResult nor the log, and delivers the TaskResult with the
\* text rendered or, on a failure, the error as the text.
RenderKeepsOutcome ==
    Rendering =>
        /\ auditLog # << >>
        /\ auditLog[Len(auditLog)].operation_id = "task:" \o task.ID
        /\ auditLog[Len(auditLog)].success = boolToInt(res.Success)
        /\ auditLog' = auditLog
        /\ res' = res
        /\ lastTaskResult' = res
        /\ CASE task.SummaryTemplate = "" -> lastSummary' = ""
             [] task.SummaryTemplate = "{{.Success}}" ->
                    lastSummary' = IF res.Success THEN "true" ELSE "false"
             [] task.SummaryTemplate = "{{" ->
                    lastSummary' = "error rendering summary: template: summary:1: unclosed action"
             [] OTHER ->
                    lastSummary' =
                        "error rendering summary: template: summary:1:2: can't evaluate field Nope"

ProjectedFrom(o) ==
    \E i \in DOMAIN cfg.Operations :
        /\ cfg.Operations[i].Target = "petstore"
        /\ cfg.Operations[i].Path = o.Path
        /\ cfg.Operations[i].Method = o.Method

\* The condition under which an endpoint is projected for a backend.
Projectable(o, backend) ==
    /\ o.RequestBody # "required"
    /\ \/ backend.TagFilter = {} /\ (o.Tags # {} \/ backend.IncludeUntagged)
       \/ o.Tags \cap backend.TagFilter # {}

ProjectorFailed == doc.kind \in {"panic", "unreachable", "invalid"}

\* C25: a failure of the projector for a backend (unreachable description,
\* invalid document, doc URL that does not parse) never ends startup: main
\* goes on with the static operations alone, and the process does not exit
\* because of the projector.
C25_ProjectorFailureNeverAborts ==
    ProjectorFailed =>
        /\ cfg.Operations = CatalogOperations
        /\ ~(mainPc = "exited" /\ exitCause = "panic: invalid URL")

\* ------------------------------------------------------------------------
\* The rules of the catalog
\* ------------------------------------------------------------------------

\* The roles the users of c have.
RolesOfUsers(c) == UNION { c.Users[i].Roles : i \in DOMAIN c.Users }

\* The resources of the kind an operation or a step names (none for sleep).
Declared(type) ==
    IF type \in DOMAIN DeclaredResources THEN DeclaredResources[type] ELSE {}

\* The rules of the catalog but the uniqueness of ids: roles, targets and
\* resources, users, steps.
CatalogValid(c) ==
    /\ \A i \in DOMAIN c.Operations :
          /\ c.Operations[i].AllowedRoles \subseteq RolesOfUsers(c)
          /\ c.Operations[i].Target \in Declared(c.Operations[i].Type)
    /\ \A i \in DOMAIN c.Tasks :
          /\ c.Tasks[i].AllowedRoles \subseteq RolesOfUsers(c)
          /\ c.Tasks[i].Steps # << >>
          /\ \A k \in DOMAIN c.Tasks[i].Steps :
                c.Tasks[i].Steps[k].Type # "sleep"
                    => c.Tasks[i].Steps[k].Resource \in Declared(c.Tasks[i].Steps[k].Type)
    /\ \A i \in DOMAIN c.Users :
          c.Users[i].SSHUsers # {} /\ c.Users[i].Roles # {}

\* C26: a document that breaks a rule of the catalog is rejected by the
\* load, which ends the process: main goes no further and no session runs
\* on such a catalog.
C26_InvalidCatalogRejected ==
    ~CatalogValid(cfg) => mainPc = "exited" /\ exitCause = "load config"

\* No two elements of the sequence have the same ID.
UniqueIDs(seq) ==
    \A i, j \in DOMAIN seq : seq[i].ID = seq[j].ID => i = j

\* C27: in the catalog of a session no two operations have the same id, no
\* two tasks have the same id and no two steps of a task have the same id;
\* a run that returned has one entry of Steps for each step it started.
C27_IdsUnique ==
    mainPc = "session" =>
        /\ UniqueIDs(cfg.Operations)
        /\ UniqueIDs(cfg.Tasks)
        /\ \A i \in DOMAIN cfg.Tasks : UniqueIDs(cfg.Tasks[i].Steps)
        /\ pc = "returned" => Cardinality(DOMAIN res.Steps) = Len(res.StepOrder)

\* ------------------------------------------------------------------------
\* The identity of the session
\* ------------------------------------------------------------------------

\* ResolvePrincipal has read the identity.
IdentityRead == env.sshUser # ""

\* The first value of the sequence that is not empty.
FirstNonEmpty(values) ==
    values[CHOOSE i \in DOMAIN values :
              values[i] # "" /\ \A j \in 1..(i - 1) : values[j] = ""]

\* The name of the OS user: none when user.Current fails.
OSUserName == IF env.Current[2] = Nil THEN env.Current[1] ELSE ""

\* C28: the identity is the first non-empty value of SSH_USER, USER, the
\* name of the OS user and "unknown"; SSH_USER wins over USER when both are
\* set, and an empty SSH_USER falls through to USER.
C28_IdentityLookupOrder ==
    IdentityRead =>
        /\ env.sshUser = FirstNonEmpty(<<env.SSH_USER, env.USER, OSUserName, "unknown">>)
        /\ env.SSH_USER # "" => env.sshUser = env.SSH_USER
        /\ env.SSH_USER = "" /\ env.USER # "" => env.sshUser = env.USER

\* SSH_USER is alice and USER is carol: the identity is alice.
C28_Witness ==
    /\ IdentityRead
    /\ env.SSH_USER = "alice" /\ env.USER = "carol"
    /\ env.sshUser = "alice"
    /\ principal.ConfigUser.ID = "alice"

\* The users of the file one of whose ssh names is the identity.
CatalogMatches == { i \in DOMAIN cfg.Users : env.sshUser \in cfg.Users[i].SSHUsers }

\* The users of the store one of whose ssh names is the identity.
StoreMatches == { i \in DOMAIN users : env.sshUser \in users[i].SSHUsers }

\* C29: the principal is the first user of the file, in declaration order,
\* one of whose ssh names is the identity exactly, with SSHUser the
\* identity, whether or not a user of the store has that name; when no
\* user of the file or of the store matches, ResolvePrincipal returns
\* ErrNoMatchingUser and no principal, and main ends.
C29_FirstCatalogUserWins ==
    IdentityRead =>
        /\ \A i \in CatalogMatches :
              (\A j \in CatalogMatches : i <= j)
                  => /\ principal.ConfigUser = cfg.Users[i]
                     /\ principal.DBUser = NoUser
                     /\ principal.SSHUser = env.sshUser
                     /\ exitCause = Nil
        /\ CatalogMatches = {} /\ StoreMatches = {}
              => /\ principal = NoPrincipal
                 /\ mainPc = "exited"
                 /\ exitCause = "auth"

\* The identity is bob, an ssh name of shadow in the file and of bob in the
\* store: the principal is shadow.
C29_Witness ==
    /\ IdentityRead
    /\ env.sshUser = "bob"
    /\ StoreMatches # {}
    /\ principal.ConfigUser.ID = "shadow"
    /\ principal.DBUser = NoUser
    /\ mainPc = "session"

\* ------------------------------------------------------------------------
\* The status of an HTTP response
\* ------------------------------------------------------------------------

\* The status code of the output "HTTP <code> <text>" (0: no response).
StatusCode(out) ==
    CASE out = "HTTP 200 OK" -> 200
      [] out = "HTTP 500 Internal Server Error" -> 500
      [] OTHER -> 0

\* The response has a status of 2xx-3xx.
StatusIsSuccess(out) == StatusCode(out) >= 200 /\ StatusCode(out) < 400

\* C30: an HTTP operation or step whose request was made succeeds exactly
\* when the response has a status of 2xx-3xx; with any other status, or a
\* network error, it fails and its audit record has success = 0.
C30_HTTPStatusDecides ==
    /\ opc \in {"log", "returned"} /\ op.Type = "http" /\ op.Target \in httpClients
          => (opErr = Nil <=> StatusIsSuccess(opOut))
    /\ pc \in {"logStep", "decide"} /\ sr.Step.Type = "http"
       /\ sr.Step.Resource \in httpClients
          => (sr.Err = Nil <=> StatusIsSuccess(sr.Output))
    /\ pc = "decide" /\ sr.Step.Type = "http" /\ ~StatusIsSuccess(sr.Output)
       /\ db = "open"
          => auditLog[Len(auditLog)].Success = 0

\* ------------------------------------------------------------------------
\* The delivery of results
\* ------------------------------------------------------------------------

\* The step on which Update receives the message of a command: its result
\* is in the details area afterwards.
ResultApplied ==
    /\ pc = "returned" /\ pc' = "idle"
          => lastTask' = task.ID /\ lastTaskResult' = res
    /\ opc = "returned" /\ opc' = "idle"
          => /\ lastOp' = op.ID
             /\ lastOutput' = (IF opErr # Nil THEN "" ELSE opOut)
             /\ lastError' = (IF opErr # Nil THEN opErr ELSE "")

\* C31: the result message of every operation or task started from the main
\* view is applied to the last-result state of the model, whatever keys
\* were pressed and whatever view is open when the command completes.
C31_ResultReachesDetails == [][ResultApplied]_vars

\* ------------------------------------------------------------------------
\* The stored public key
\* ------------------------------------------------------------------------

\* The device returned the credential id asked for, and the key stored
\* with that credential is no P-256 key.
MatchingIDOtherKey ==
    /\ fido.assertion # NoAssertion
    /\ Len(principal.ConfigUser.YubiKeyCreds) > 0
    /\ fido.assertion.CredentialID = principal.ConfigUser.YubiKeyCreds[1].CredentialID
    /\ principal.ConfigUser.YubiKeyCreds[1].PublicKey # "p256"

\* C32: whenever the returned credential id matches and the stored public
\* key is not a P-256 key (undecodable, unparsable, not EC, or EC on another
\* curve), the verifier returns an error: the second factor never succeeds
\* and no session starts.
C32_NonP256KeyRejected ==
    MatchingIDOtherKey =>
        /\ fido.verified = 1
        /\ fido.err \in
             {"verify signature: decode public key: illegal base64 data at input byte 0",
              "verify signature: parse public key: asn1: structure error",
              "verify signature: public key is not P-256 ECDSA"}
        /\ mainPc = "exited" /\ exitCause = "yubikey"

\* The stored key is on P-384 and the device signed: the verifier refuses.
C32_Witness ==
    /\ MatchingIDOtherKey
    /\ principal.ConfigUser.YubiKeyCreds[1].PublicKey = "p384"
    /\ fido.assertion.Signature = "valid"
    /\ fido.err = "verify signature: public key is not P-256 ECDSA"
    /\ mainPc = "exited"

\* ------------------------------------------------------------------------
\* The logger without database, and Close
\* ------------------------------------------------------------------------

\* A step in which Log is called: by logStep, logTask, runOperation or
\* directly.
LogCalled ==
    \/ pc = "logStep" /\ pc' = "decide"
    \/ pc = "logTask" /\ pc' = "returned"
    \/ opc = "log" /\ opc' = "returned"
    \/ logRet'.call = "Log" /\ logRet' # logRet

\* On a logger without database a call of Log returns nil, records nothing
\* and leaves the result of the execution as the drivers made it.
NullAppend ==
    (db = "nil" /\ LogCalled) =>
        /\ logRet'.call = "Log" /\ logRet'.err = Nil
        /\ auditLog' = << >>
        /\ res' = res /\ sr' = sr
        /\ opOut' = opOut /\ opErr' = opErr

\* On a logger without database ReadRecent returns no rows and no error,
\* and the logs view reports no error.
NullRead ==
    db = "nil" =>
        /\ auditLog = << >>
        /\ recent.rows = << >> /\ recent.err = Nil
        /\ lastError \notin {"read logs: sql: database is closed"}

\* C33: a logger without database takes every append as a no-op that
\* returns no error and records nothing, and ReadRecent on it returns no
\* rows and no error; the executions that log to it complete with the
\* results their drivers gave.
C33_NullLogNoOp == []NullRead /\ [][NullAppend]_vars

\* With a logger without database a task of two steps has returned, its
\* result delivered, and the logs view has been opened.
C33_Witness ==
    /\ db = "nil"
    /\ logRet.call = "Log" /\ logRet.err = Nil
    /\ lastTask = "deploy" /\ Len(lastTaskResult.StepOrder) >= 1
    /\ mode = modeLogs
    /\ recent.limit = RecentLimit /\ recent.rows = << >>

\* A step in which Close is called.
CloseCalled == logRet'.closes = logRet.closes + 1

\* Close returns no error, leaves the database closed and the records as
\* they were.
CloseKeepsLog ==
    CloseCalled =>
        /\ logRet'.call = "Close" /\ logRet'.err = Nil
        /\ db' = "closed"
        /\ auditLog' = auditLog

\* C34: Close is idempotent: called any number of times after a successful
\* open it returns no error each time and leaves the log closed with its
\* records unchanged.
C34_CloseIdempotent ==
    /\ [][CloseKeepsLog]_vars
    /\ [](logRet.closes > 0 => db = "closed")

\* Close was called three times on a log of two records.
C34_Witness ==
    /\ logRet.closes = 3
    /\ logRet.call = "Close" /\ logRet.err = Nil
    /\ db = "closed"
    /\ Len(auditLog) = 2

\* ------------------------------------------------------------------------
\* The sleep step
\* ------------------------------------------------------------------------

\* The step whose result Run holds is a sleep.
SleepReturned == pc \in {"logStep", "decide"} /\ sr.Step.Type = "sleep"

\* The sleep succeeded if the context was not done when it returned, and
\* failed with the cause of the context otherwise.
SleepOutcome ==
    SleepReturned =>
        IF ctxDone
        THEN ~sr.OK /\ sr.Err = "context deadline exceeded"
             /\ res.Steps[sr.Step.ID] = sr
        ELSE sr.OK /\ sr.Err = Nil /\ sr.Output = "slept 1s"

\* The policy of the step is applied to a sleep that failed.
SleepFailureHandled ==
    (SleepReturned /\ pc = "decide" /\ sr.Err # Nil) =>
        CASE stepPolicy = StepOnErrorFail ->
                ~res'.Success /\ pc' = "logTask"
          [] stepPolicy = StepOnErrorWarn ->
                ~res'.Success /\ pc' = "loop" /\ idx' = idx + 1
          [] OTHER ->
                res'.Success = res.Success /\ pc' = "loop" /\ idx' = idx + 1

UserIDs(rows) == { rows[i].ID : i \in DOMAIN rows }

\* Store.GetCredentials: the rows of table credentials of the user.
GetCredentials(tbl, userID) == SelectSeq(tbl.rows, LAMBDA c : c.UserID = userID)

\* After a step that deleted users, the store holds no credential of them.
DeleteTakesCredentials ==
    \A id \in UserIDs(users) \ UserIDs(users') : GetCredentials(creds', id) = << >>

\* C39: after DeleteUser(id) returns without error the store holds no user
\* of that id and GetCredentials(id) returns no credentials.
C39_DeleteUserCascades == [][DeleteTakesCredentials]_vars

\* ------------------------------------------------------------------------
\* The list of the main view
\* ------------------------------------------------------------------------

\* The items of the catalog the principal may see in the view shown, in
\* declaration order.
VisibleItems ==
    IF viewTasks THEN tasksToItems(cfg, principal)
    ELSE operationsToItems(cfg, principal, filter)

\* C37: in main mode the list holds exactly the items of the catalog
\* visible to the principal, in declaration order: the operations of the
\* current filter in the operations view, the tasks in the tasks view;
\* whatever toggles, filter keys and visits to logs, help and users mode
\* came before.
C37_ListShowsCatalog == mode = modeMain => list = VisibleItems

\* ------------------------------------------------------------------------
\* Users mode
\* ------------------------------------------------------------------------

\* The roles of the principal of the session.
PrincipalRoles == principal.ConfigUser.Roles \cup principal.DBUser.Roles

\* The principal has the role admin or owner.
AdminOrOwner == "admin" \in PrincipalRoles \/ "owner" \in PrincipalRoles

\* A registration starts in users mode alone, and no key takes a principal
\* who is neither admin nor owner out of the mode they are in by "u".
RegistrationFromUsersMode ==
    /\ reg'.started > reg.started => mode = modeUsers /\ AdminOrOwner
    /\ ~AdminOrOwner => mode' # modeUsers

\* C36: user management is admin-only: the model is in users mode only if
\* the principal has the role admin or owner, a registration is started
\* from users mode alone, and for any other principal the key u leaves the
\* mode unchanged.
C36_UsersModeAdminOnly ==
    /\ [](mode = modeUsers \/ reg.started > 0 \/ registeringUser => AdminOrOwner)
    /\ [][RegistrationFromUsersMode]_vars

\* alice, an admin, is in users mode and has registered user_1.
C36_Witness ==
    /\ mode = modeUsers
    /\ principal.ConfigUser.ID = "alice" /\ AdminOrOwner
    /\ reg.started = 1 /\ reg.pc = "idle"
    /\ registerStatus = "User user_1 registered successfully!"
    /\ \E i \in DOMAIN list : list[i].kind = "user" /\ list[i].item.ID = "user_1"

\* The step on which Update receives the userRegistrationMsg of a command
\* clears the flag.
RegistrationCleared ==
    (reg.pc = "returned" /\ reg'.pc = "idle") => ~registeringUser'

\* C38: at most one registration is in flight, and the flag is cleared when
\* the command completes, with success or failure, so that a later n in
\* users mode starts a new registration, even if the operator left users
\* mode before the registration finished.
C38_RegisteringCleared ==
    /\ [](reg.pc # "idle" => registeringUser)
    /\ [][RegistrationCleared]_vars

====
